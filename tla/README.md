# A verification project for the Pinyon kernel

Pinyon is a small operating system for the Raspberry Pi: a single-core kernel
(`kernel/`), a freestanding C++ library shared by kernel and user programs
(`pine/`), and a shell (`userspace/`). This directory holds TLA+ models of its
parts, TLC configurations that check them on small instances, and TLAPS proofs
of theorems about them for all values of their constants. `PROJECT.json` maps
every definition to the source lines it stands for.

## 1. Inventory

| Component | State | Operations | Correct when |
|---|---|---|---|
| Scheduler: `TaskManager`, `Task` (`kernel/tasks.cpp`, `wait.hpp`) | vector of tasks, index of the running one, per task state, Waitable, CPU time | start, preempt, yield, sleep, wait for, exit | the loop of `pick_next_task` always ends, nobody starves, sleeps are not cut short, a finished Waitable wakes its task, CPU time is charged to whoever had the CPU |
| UART driver (`kernel/device/pl011/uart.cpp`, `kernel/console.cpp`) | one `UARTRequest`, the interrupt mask, the device's FIFOs | `UARTFile::read`, `write`, `handle_irq`, `UARTPrinter::print` | its panics never fire, no wakeup is lost, no interrupt storm, input neither lost nor reordered |
| Interrupt controller (`kernel/device/bcm2835/interrupts.cpp`) | enabled sources | `interrupts_handle_irq` | timer, then UART, then the scheduling decision |
| System timer (`kernel/device/bcm2835/timer.cpp`) | two compare registers, match flag, jiffies | `init`, `handle_irq`, `reinit` | jiffies never run ahead of time; a next interrupt is always due |
| System calls (`kernel/syscall.cpp`) | none of their own | dispatch on the number, validation | each reaches the task operation it names |
| Open files (`kernel/file.cpp`) | file table, descriptions with reference counts, one descriptor table per task | `open`, `close`, `dup`, `read`, `write` | a description lives while a descriptor names it |
| Free list, watermark and fallback allocators (`pine/malloc.cpp`, `kernel/kmalloc.cpp`) | free list with in-band headers, watermark | `allocate`, `free`, `add` | blocks do not overlap, no memory is lost |
| Slab and page allocators, page broker (`pine/malloc.hpp`, `malloc.cpp`) | free lists by size, slab bitmap, runway | `allocate`, `reserve_region`, `free` | lists and bitmap agree, no page is in two hands, none is lost, searches find what is there |
| AArch32 MMU (`kernel/arch/aarch32/mmu.cpp`, `mmu.hpp`) | L1 and L2 tables, two brokers, allocator of L2 tables | boot reservations, `allocate`, `reserve_region` | boot mappings are identities, no two callers share a page, translations stay |
| Exceptions and task switch (`kernel/arch/aarch64/vector.S`, `switch.S`) | saved registers, frames on kernel stacks, masking | entry, return, interrupt, switch | every task gets its registers back; whoever reschedules has interrupts masked |
| Containers (`pine/vector.hpp`, `linked_list.hpp`, `iter.hpp`, `algorithm.hpp`) | storage, size, capacity | append, remove, `lower_bound` | size never exceeds storage |
| Powers of two, bits (`pine/twomath.hpp`, `bit.hpp`, `bitmap.hpp`, `array.hpp`) | none | alignment, bits of a word | as their users need them |
| Shell (`userspace/shell.cpp`) | descriptors, a buffer | set up stdin and stdout, greet, prompt, read, run, exit | stdin and stdout stay the UART; assertions fail only without memory |
| User library (`userspace/lib.cpp`, `pine/print.hpp`) | free list of the task, its statistics, the buffer of `printf` | `malloc`, `free`, `printf`, `read`, `write` | statistics are exact, output stays inside its buffer |
| Mailbox, display, boot code | device registers, pixels | | mostly not modelled, see section 7 |

How they interact. There is one CPU and no lock. User tasks enter the kernel
through system calls, which run with interrupts **enabled**; an
`InterruptDisabler` covers each scheduling decision. The interrupt handler runs
with interrupts masked: it advances jiffies if the timer is pending, lets the
UART's request move bytes if the UART is pending, and calls the scheduler if it
was the timer. There are no wait queues. A task that blocks points at a
`Waitable` (a sleep with its deadline, or the UART's request) and the scheduler
polls it each time its turn comes. The boot code creates the shell and a *spin*
task that never blocks, so that there is always a task to run.

What is hard to test here: the handler running between any two steps of a UART
call; the counter moving on between any two register accesses of the timer
handler; interrupts between two instructions of the exception epilogue; a task
switch in the middle of an append to the table of files that tasks share; timer
and UART pending together; 32-bit counters that wrap; the index into the task
vector when a task is removed from it; allocators that run out in the middle of
an operation; state that a call leaves behind for the next one. `PROJECT.json`
lists the hazards at their lines.

## 2. Modules

| Module | Models | Status |
|---|---|---|
| `Scheduler`, `SchedulerProofs` | `kernel/tasks.cpp` | checked and proved |
| `SchedulerHistory`, `MCScheduler` | `Scheduler` with a record of who was passed over and how long sleepers have left; its instance for TLC | checked and proved |
| `Uart`, `UartProofs` | `kernel/device/pl011/uart.cpp`, `kernel/console.cpp` | checked and proved |
| `MCUart` | `Uart` with a record of what was typed and read | checked and proved |
| `Kernel`, `KernelProofs` | `Scheduler`, `Uart` and `interrupts_handle_irq`, on one CPU | checked and proved |
| `MCKernel` | instance of `Kernel` for TLC | |
| `SystemTimer`, `SystemTimerProofs` | `kernel/device/bcm2835/timer.cpp` | checked and proved |
| `Allocator` | what an allocator promises its callers (abstract) | |
| `FreeList`, `FreeListProofs` | `IntrusiveFreeList`, `FallbackAllocatorBinder` and two fallback allocators (`pine/malloc.cpp`, `malloc.hpp`) | checked and proved |
| `UserHeap`, `MCUserHeap` | `malloc`, `free`, `printf` (`userspace/lib.cpp`, `pine/print.hpp`), on `FreeList` | checked and, in `FreeListProofs`, proved |
| `FileTable` | `kernel/file.cpp` | checked (through `Shell`) and proved |
| `Shell`, `ShellProofs` | `userspace/shell.cpp`, its system calls and the devices' results, on `FileTable` | checked and proved |
| `Page` | regions of pages, powers of two (`pine/page.hpp`, `twomath.hpp`) | |
| `PageAllocator` | page allocator, slab allocator and broker (`pine/malloc.hpp`, `malloc.cpp`) as operators | |
| `Pages`, `PagesProofs`, `MCPages` | one broker and its callers | checked and proved |
| `Mmu`, `MCMmu` | `kernel/arch/aarch32/mmu.cpp`, `mmu.hpp`, on two brokers | checked and, in `PagesProofs`, proved |
| `Exceptions`, `ExceptionsProofs` | `kernel/arch/aarch64/vector.S`, `switch.S`, `exception.cpp` | checked and proved |
| `Vector`, `MCVector` | `pine/vector.hpp` | checked and, in `PagesProofs`, proved |

### Scheduler

The variables have the names of the members: `m_tasks`, `m_running_task_index`
(zero-based, as in the code), and `m_state`, `m_waiting_for`,
`m_jiffies_when_scheduled`, `m_cpu_jiffies` as functions of the task. `jiffies`
is the clock, modulo `JiffiesModulus` as in a `u32`.

A decision is one action, because it is taken with interrupts masked:
`TimerInterrupt`, `Yield`, `Sleep`, `WaitForIo`, `Exit` and `start_scheduler`.
`pick_next_task` is given as the set of indices at which its loop may stop: the
first task behind the running one that can run. The set is empty when the loop
would not end, in which case the action has no step; `SchedulerNeverStuck`
proves that this does not happen. `schedule` charges the running task and stamps
the new one only if they differ, as `Task::switch_to` is only reached then.
`Exit` keeps the index where the dead task was, and the loop increments it
before it looks, so the dead task's successor is passed over once.
`Vector::remove` moves the rest into new memory; its allocation cannot fail
there, since the exiting task has just given its stacks back.

What a task waits for besides time is a Waitable of which this module only knows
whether it is finished (`ioFinished`). It doubles as the abstract specification
of what the scheduler promises the rest of the kernel; `Kernel` implements it.

### Uart

`m_request` is the one `UARTRequest`, `imsc` the mask register as a set,
`rxFifo` and `txLevel` the device. A call is split where an interrupt can be
taken: `Call` (the `PANIC_IF` and the new request), `enable_irq`,
`TestFinished`, `Wait`, and `Return` (the second `PANIC_IF`). `handle_irq` is one
step. It moves all bytes it can: `try_read` stores up to the first line end,
consumes it without storing it, and cuts `m_capacity` to end the request;
`try_write` chooses how many of the bytes are `'\n'`, each of which takes two
entries although room for one was checked. `set_read_irq` and `set_write_irq`
compute a trigger level that they do not store, and the code writes zeroes to the
interrupt clear register, which has no effect on the device; so both interrupts
follow the FIFO levels at fixed triggers. `print` is what the kernel itself
prints: it polls with the transmit interrupt masked and puts the mask back as it
found it. `Wake` states what the driver needs from the scheduler: that a caller
goes on only when the request is finished.

### Kernel

`Kernel` instantiates both and gives every step to whoever can take it: a task
step needs that task to be the running one, the interrupt handler can come
between any two of them. `Exit` and `Reject` (an unknown system call) print.
`ioFinished` is replaced by `is_finished(m_request)`, and `Wake` by `UartResume`,
which looks at nothing but who is running. That the composition still implements
both parts is `ImplementsScheduler` and `ImplementsUart`.

### SystemTimer

Every read of `lower_bits` is a step of its own, with `Tick` free to happen in
between: entering `handle_irq` (which computes `jif_diff`), each round of the loop
of `reinit`, its last test, the setting of `compare3`, the clearing of the flag. The handler may
be entered any time after the match, since interrupts may be masked. `counter` is
the whole counter; the registers hold it modulo `CounterModulus`.

### FreeList and Allocator

`Allocator` states the promise: a block is at least as large as it was asked to
be, lies in memory the allocator owns, and shares no byte with a block that was
not given back. `FreeList` is the code behind `kmalloc` and `malloc`. Memory is
divided into nodes, named by the address of their header; `size` is what the
header says, `m_free_list` the linked list as a sequence, `allocated` the nodes
in the callers' hands, `watermark` what was taken from the fallback allocator.

`AllocateFromList`, `AllocateFromFallback` and `AllocateFails` are the three ways
through `FallbackAllocatorBinder::allocate`; the second includes `add` and the
second call of `IntrusiveFreeList::allocate`. `split` is the body of that
function: the rest of the node is rounded down to the alignment and becomes a
node at the end of the list if it exceeds a header and one unit. `free` adopts to
the left and to the right as the code does, the absorbed header's bytes included:
they go to nobody. The size of an absorbed header is set to 0, as nothing reads it
again. `FixedFallback` chooses between the kernel's `FixedAllocation` (one region,
once, AArch64) and a task's heap, which grows by `sbrk`; its regions lie side by
side, so that nodes of different regions can be joined by `free`. `add` joins
nothing, which is why `Coalesced` speaks of the fixed region only.

An operation is one step: no interrupt handler allocates, a user task's list
belongs to that task alone, and of the tasks that ship only the shell makes
system calls. Callers give back what they were given, once; `free` does not check
it (its FIXME says so).

### UserHeap

User code does not interleave with itself, but its calls nest: `malloc` prints
when there is no memory, and `printf` allocates. `calls` is the stack of calls of
`printf` under way, each with its buffer, the pointer it writes through
(`print_buf`) and the block it owns (`print_alloc`), which are two different
things once the buffer has been replaced. A format is a sequence of pieces, each
with the characters it takes in the format and the bytes it prints; a piece may be
unknown, at which `vfnprintf` gives up. `used_size` and `heap_size` are
`g_malloc_stats`. Three outcomes end a run of the model, and `broken` says which:
`printf` and `malloc` calling each other for ever, a null pointer given to `free`,
and bytes written that are not the buffer's. They are in the code, see section 6.

### FileTable and Shell

`m_files` is the storage of the kernel's table of descriptions, `m_count` what that
vector takes for its length, `m_descriptors` the table of each task, which holds places
in `m_files` (0 for a null pointer). System calls run with interrupts on, and the timer
interrupt reschedules in the kernel, so that `FileTable::open` can be left between any
two accesses to the table that all tasks share. Each is a step of its own, and `opening`
says how far every task has come: `append` (the place), `emplace` (the description is
constructed there), `load` and `count` (the two halves of `++m_count`, of the value that
a register holds or of the one in memory), and `take` (the pointer that `open` returns,
which looks at the length again). `open` and `OpenFails` are the two ends of
`FileDescriptorTable::open`, on the task's own table, with the clean-up of the second; a
failure before the description exists changes nothing. `mixed` records that an append
has begun while another task was between the beginning of its own and `take`.

`close` decrements the unsigned count and destroys at 0. `dup` stores the pointer and
counts nothing. `Exit` drops a task's table without closing anything, as the
default destructor does. `CloseShared` chooses whether tasks close a descriptor
while another leads to the same description; the shell does not.

`Shell` extends these tables with the device and the mode of every description
and with the shell's own program: the two opens of the UART, the closes and
duplicates that put it in the place of stdin and stdout, the welcome on the
display, then prompts, reads and commands until it exits. The return of a call and the
assertion about its result are one step. Every allocation made for the shell may fail,
and `starved` records that one did. A read or write through a descriptor whose
description is not alive may return anything. The other task opens, closes, duplicates
and exits as it likes, between any two steps of the shell's opens too.

### PageAllocator and Pages

A broker is a record, because the MMU code has two of them: the bitmap of the node
allocator (`bits`), how many nodes there is memory for, the region each node
holds, the free lists as sequences of nodes, and `m_curr_runway`. The operators
are the code's functions, its searches and its halving loop included, with the
places where it stops half way for want of a node. They keep what the code does
where it differs from what its names say: `word()` of the bitmap picks the first
word whatever the index; `distance` over a list is 0, so that `lower_bound` is
always the first place and lists are not sorted; regions are never joined when they
are freed; a reservation returns the whole free region around it when halving
cannot separate it; a reservation is charged nothing, and less than nothing when
halving stops early, which wraps. `SlabPagesAdded` is the chunk arithmetic of
`SlabAllocator::add`.

`Pages` is one broker with callers that allocate, reserve and free; `out` and
`runway` record who has which region.

### Mmu

`mmu` holds both brokers, the L1 table, the L2 tables and their allocator. Boot is
`init_page_tables` (`mmu.cpp`), the initial state for each size the code may have;
then `AllocatePages` and `ReservePages` call the page allocator. The code's
`try_reserve_l2_table_entry` and `try_record_page_in_l1` call each other: a table for a
page may be needed while a page for tables is being taken. `RecordPagesWith` is the loop
of the second and takes what the first does without a free table, `MoreTables`, as a
parameter; `MoreTables` is a function from states to answers, defined by way of itself.
`exhausted` says that it was needed, that the bitmap had no bit for a table, or that a
region could not be recorded. `HardwareFrame` is what the MMU makes of the field the
code fills.

### Exceptions

The unit of interleaving is what an interrupt can separate: entering by a wrap,
the handler, restoring `elr_el1`, restoring `spsr_el1`, restoring the registers and
returning. (Inside the last an interrupt overwrites the return state just as it does
before it, and its frame gives back what was loaded.)
`cpu` has the registers that matter: place, mode, masking, one general register,
`lr`, `sp_el0`, and the banked return address and state that a nested exception
overwrites. `registers` is `m_registers` of each task, `stack` the frames its
wraps have pushed. `Schedule` and `Exit` are the switch, to any task that is
alive, so the module does not depend on what the scheduler picks. `user` is what
a task must find when it is back in user code.

### Vector

The entries are a sequence, next to the two numbers that can disagree:
`m_capacity`, and `storage`, the bytes of the allocation. `ensure` is an operator
that `append` and `Ensure` (the shell's direct call) use; `RemoveTail` destroys in
place, `RemoveInside` moves the others to new memory with the indices of the copy
loop, and `RemoveFails` is the path on which there is no new memory: the entry has
been destroyed and counted off, nothing has moved. `entrySize` is chosen once: the
class is a template, and the size is what makes the difference. The destructor,
which frees the memory, is not an action: nothing can be done to the vector after
it.

## 3. Runs

| Run | Module, cfg | Result | Shows |
|---|---|---|---|
| `scheduler_three_tasks` | `MCScheduler`, `SchedulerThree.cfg` | passes, 1.7 million states | the invariant, `NoStarvation`, `SleepIsNotCutShort`, `CpuTimeGoesToRunningTask` |
| `uart_one_caller` | `MCUart`, `UartOneCaller.cfg` | passes, 383,000 states | no panic, mask follows request, no storm, input in order |
| `kernel_shipped` | `MCKernel`, `KernelShipped.cfg` | passes, 110,000 states | refinement of both parts, `WaiterIsServed`, `FinishedIoWakesTask`, `WriteReturns`, `ReadReturns` |
| `timer_jiffies` | `SystemTimer`, `TimerAhead.cfg` | passes, 288,000 states | jiffies stay behind the counter |
| `free_list_kernel` | `FreeList`, `FreeListKernel.cfg` | passes, 43,000 states | nodes disjoint and aligned, free neighbours joined, an `Allocator` for its callers |
| `user_heap` | `MCUserHeap`, `UserHeap.cfg` | passes, 188,000 states | the free list on a growing heap, exact statistics, `printf` inside its buffer |
| `vector_in_use` | `MCVector`, `VectorInUse.cfg` | passes, 5,600 states | entries of one byte in any number, larger ones up to the least capacity |
| `vector_capacity` | `MCVector`, `VectorCapacity.cfg` | violation | capacity in bytes, section 6 |
| `shell_files` | `Shell`, `Shell.cfg` | passes, 4.6 million states | descriptors stable; until appends overlap: live files behind them, closed files given back, tasks apart, stdin and stdout stay the UART, assertions hold while there is memory, the zero of `read` in its buffer |
| `pages` | `MCPages`, `Pages.cfg` | passes, 10,000 states | lists and bitmap agree, pages apart and not lost, searches find what is there |
| `mmu_tables` | `MCMmu`, `Mmu.cfg` | passes, 6,700 states | boot mappings are identities, pages are mapped to what was taken for them and shared by nobody, translations stay |
| `exceptions_aarch64` | `Exceptions`, `Exceptions.cfg` | passes, 7.2 million states | user registers kept, calls come back but for those torn on the way out, masked wherever it reschedules |

Bounds.

- Three tasks is the smallest number at which an exit can pass over a successor
  that is not the spin task, and at which one task can be starved by another. A
  modulus of 5 with ticks of 1 and 2 lets jiffies wrap inside a sleep and inside
  a time slice. Sleeps of zero seconds are included.
- The FIFOs have 3 entries and requests 1 to 3 bytes, so that a request can be
  larger than, equal to and smaller than what is there, a write can fill the
  FIFO with a two-entry line end at its last place, and a line end can stand
  first, last or behind the requested bytes. `MaxTyped` (5 characters) bounds the
  history, not the driver; it covers a read that stops at a line end followed by
  one that does not.
- The composition has the two tasks that ship and FIFOs of 2 entries, with a
  receive trigger above 1 so that characters can wait unannounced.
- The timer has a period of 3 and a fallback of 4 periods; the counter goes
  through more than three fallback periods before the modulus, and past it. The
  handler may be delayed for all of it.
- The allocator has headers of 2 bytes, an alignment of 2 and pages of 8. The
  kernel's 32 bytes hold up to eight nodes, so that a node can be split several
  times and be joined on both sides. Requests of 1 byte need rounding, and those
  of 4 and 8 leave rests that are just not and just worth a node. The region runs
  out.
- The user heap grows by pages of 8 to 32 bytes. Requests of 12 bytes need two
  pages, and the heap runs out in many ways. The formats fit twice their length
  with and without room for the zero, exceed it by one piece and by the first, and
  have a conversion that is not known; calls of `printf` nest through `malloc`. Nobody
  asks for zero bytes and no format is empty (`UserHeapAssumption`): `malloc` takes the
  answer to such a request for a failure and prints.
- The vectors have a least capacity of 2 (8 in the code) and a page of 4 entries;
  one-byte entries go through powers of two and into whole pages, up to 7 of them.
  Larger entries stay within the least capacity, as the kernel's task vector does
  with its 2 tasks.
- The shell makes all its calls, next to one other task with up to 2 descriptors, and
  that task's steps come between any two of the shell's. Eight descriptions
  (`MaxFiles`) are what the first allocation of the vector has room for: the four that
  tasks start with, the three that the shell opens, and one that the other task opens at
  any time, or more while the shell opens fewer. The shell needs 5 descriptors; `MaxFds` has
  room for two more, so that a wrong place does not meet the bound. A buffer of 3 bytes is
  given no byte, one byte, or the two that `read` asks for.
- The broker has 8 pages, nodes for four regions, and so little runway that it
  asks for more: nodes, runway and pages run out one before the other. Sizes 2 and
  3 (a power of two and none), alignments 1 and 2, and one reservation across the
  middle of the memory. `WordBits` is the number of nodes, see section 6.
- The MMU has 32 sections of 16 pages, devices in the last quarter, and code of 1
  to 4 sections. 3 L2 tables for five calls of up to 64 pages run out in some
  orders and not in others. Allocations of 1, 5, 16 and 64 pages are less than a
  table, no power of two, one table, and several; one
  reservation is an identity and one is not.
- The exceptions have two user tasks, so that a task can be switched out in any
  state and find another one's registers when it comes back, and the one kernel
  task that ships. The stack of frames is bounded by masking, not by a constant.

`timer_jiffies`, `uart_one_caller`, `shell_files`, `user_heap`, `mmu_tables` and
`exceptions_aarch64` switch off the deadlock check: the counter stops at
`MaxCounter`, nobody has to call the UART once `MaxTyped` is reached, all tasks may
exit, a program whose heap is broken stops, `MaxCalls` is reached, and a fault in
user code ends in a panic. The others keep it on: there is always a step.

Every property of a passing run has a mutant in `PROJECT.json`: a version of a
definition with a plausible mistake under which TLC finds the property violated.
The mutated definitions stand next to the originals and nothing else uses them.

## 4. Fairness

- `Scheduler` and `Kernel`: weak fairness of the timer interrupt. Interrupts are
  masked only for the length of a handler or a decision, and spin runs with
  interrupts enabled. It is what the code assumes too; section 6 has the case in
  which the timer itself falls silent, which these modules leave out.
- `Kernel`: weak fairness of the UART interrupt, and of the device sending what
  it was given.
- `Kernel`: strong fairness of the steps of a UART call under way. The timer
  takes the CPU away again and again, so such a step is not continuously enabled;
  a time slice is an eighth of a second, more than any one step needs.
- Nobody has to type, nobody has to start a call, nobody has to exit.

`ReadReturns` starts where the receive interrupt is raised with a line end in the
FIFO. Stated from the line end alone it does not hold: only `RXIM` is unmasked,
not the receive timeout, so characters below the trigger level wait for more.

The other modules have safety properties only, and state no fairness.

## 5. Proofs

All theorems hold for every value of the constants that satisfies the `ASSUME`s
of the module: any number of tasks, any width of the counters, any FIFO depth.

**SchedulerProofs.** `SchedulerInvariant` proves `SchedulerInv`: the types, the
shape of the task vector (no task twice, the spin task last), the running task
runnable, and spin not waiting. None of these is inductive alone: that the index
stays inside the vector needs that the vector is never empty, which needs spin
to be last and never to exit; that a task can be picked needs that spin is in the
vector and does not wait. Each decision is reduced to one lemma about
`pick_next_task` (there is a first task that can run, by the least number
principle). `SchedulerNeverStuck` is `SomebodyCanRun` for all task counts.
`CpuTimeIsExact` proves the action property `CpuTimeGoesToRunningTask`, with the
arithmetic of wrapping counters in lemmas of its own. `TypeCorrect` is the type
invariant.

Two theorems are about `SchedulerHistory`, whose variables observe the scheduler and
restrict nothing (`HistoryOnlyObserves`). `RoundRobin` proves `NoStarvation`. How
often a task has been passed over is not bounded by anything inductive on its own;
what is bounded is that number plus the distance the loop still has to the task
(`PassedInv`): a decision that passes it over by picking another comes closer by as
much, and only an exit adds to it, because the loop starts behind the successor of the
dead task, which is then a whole round away: an exit costs it as many picks as there
are others left. `SleepsAreWhole` proves
`SleepIsNotCutShort` from `SleepInv`: what a sleeper has left is not more than what
lies between jiffies and its deadline, which also holds after jiffies have wrapped.

**UartProofs.** `UartInvariant` proves `UartInv` under `OneCaller` and
`NoEmptyRequest`. The invariant ties the mask register to the request
(`MaskFollowsRequest`) and to the point the caller has reached (`CallerInv`): a
finished request has nothing unmasked, an unfinished one only its own direction,
and from `enabled` on exactly its own direction. That a
sleeping call is going to be interrupted is part of it, `UartNeverPanics` and
`NoInterruptStorm` follow from it. Both assumptions
are needed: see section 6 for the empty request, and the panic message of
`UARTFile::read` for the second caller.

`NoInputIsLost` proves `InputInOrder` of `MCUart`, under the same assumptions. That
nothing is lost or reordered is kept by `handle_irq` only if it takes characters for a
read that is not finished, and if `Return` hands out what was taken since `Call` and
nothing else; so `RequestInv` says that an unfinished request to read has its caller
in the call, with the capacity it asked for. `try_readTakesTheFront` is the lemma about
the FIFO: what is stored, the line end if the read stops at one, and what is left are
the FIFO as it was.

**KernelProofs.** The proofs of the two parts are instantiated with the
composition's substitutions, so that their invariants and their preservation
lemmas apply to it, with `ioFinished` being what the driver computes. What is left
is the glue. The parts' invariants alone do not show that a resumed caller finds
its request finished: the scheduler knows that the task was woken, the driver that
it waits, and nothing connects the two. `CallsFollowTasks` does: a task that waits
for the UART is asleep in its call, and one that is asleep there waits for the
UART or has its request finished. With it every step of the composition is a step
of each part or leaves it alone (`SchedulerStep`, `UartStep`), which gives
`KernelImplementsScheduler` and `KernelImplementsUart`, and the induction gives
`KernelInvariant` and `WaitersAreServed`. The assumptions are those of
`UartProofs`; the number of tasks that do not use the UART is free.

**SystemTimerProofs.** `TimerInvariant` proves `TimerInv`, and
`JiffiesAreNeverAhead` follows. The bound on jiffies alone is not inductive: the
handler counts one period, or `Fallback` of them, and nothing says that so much
time has passed. The strengthening is a congruence: the time jiffies show is a
whole number of periods away from `compare1`. A match at `compare1` therefore
stands for at least one period, and `compare3` was set at least `Fallback`
periods behind the time jiffies show when it was set.

**FreeListProofs.** `FreeListInvariant` proves `FreeListInv`, the conjunction of
the types, `ListIsSet`, `NodesDisjoint`, `NodesAligned` and the alignment of the
watermark; the parts need each other: a split is only inside its node if the node
is aligned, and a node taken out of the list is only gone from it if it was there
once. `InvAsLayout` restates the invariant as one predicate on a set of nodes,
their sizes and the watermark, and `SplitNode`, `NewNode` and `AdoptNode` show
that the three things the code does to memory preserve it, whatever list the
nodes are in. `AppendNode` and `RemoveNodeFromList` do the same for the list
without regard to memory. `FreeNodesAreCoalesced` proves `Coalesced` in the same
induction; it is inductive because a split node had no free right neighbour and
`free` looks to both sides. `FreeListImplementsAllocator` proves the refinement
from the invariant before and after the step. All three hold for any header
size, alignment, page size, memory size and set of requests, subject to
`FreeListAssumption`, which is what the `static_assert`s of `malloc.hpp` say: the
header, the page and the memory are whole numbers of alignment units. They cover
both fallback allocators, so also the list under `UserHeap`.

The last part is about `UserHeap`. `HeapInvariant` proves `HeapInv`: the free list's
invariant, and `CallsInv` about the stack of calls of `printf`. `printf` calls `malloc`,
which may call `printf`: the calls below the innermost one wait for a larger buffer
and have given theirs back (`Suspended`), which is why nothing the inner calls allocate
can be a buffer of theirs; and the innermost one has, while it adds pieces, either no
block or one of at least `bufsize` bytes. `PrintfStaysInItsBlock` follows with
`OwnBytes`: the bytes of a block in use are in no header, no free node and no other
block. `HeapUnderPrintf` says that the list stays one, and that every buffer `printf`
gives back is held, which is what `free` needs and does not check;
`HeapSizeIsReported`, for a heap that grows, is `g_malloc_stats.heap_size`.

`UsedSizeIsReported` is `g_malloc_stats.used_size`: always the sum of the sizes of the
blocks in use. With it `UserHeapInvariant` proves all of `UserHeapInv` for a heap that
grows. The sum over a set of blocks is written as a function of partial sums
(`SumOf`: the contribution of the addresses below `n`), and so is `strlen`, the sum of a
format's pieces. A recursive function on `Nat` exists because its partial functions do
and agree (`SumsExist`; the least length without one is a contradiction), and then
`SumOfChanged`, again by the least counterexample, says that a sum in which one
contribution changes changes by as much; a `malloc` or `free` changes one
(`GetsCounts`, `GivesCounts`). That `strlen` is a length is proved, no longer assumed;
the formats need only be sequences of pieces.

**ShellProofs.** The first half is about the tables: `FilesInvariant` proves `FilesInv`
under `~CloseShared`, and `DescriptorsStay` proves `DescriptorsAreStable` without any
hypothesis, overlapping appends included. That descriptors lead to live files is not
inductive: `close` would have to know that the count it decrements to 0 was not
another's. `Sound`, which holds until `mixed`, says why it holds all the same: because
`dup` does not count, the count of every description that a descriptor leads to
is exactly 1 (`LedToIsNew`), so one `close` destroys it, and under `~CloseShared`
its only holder was the one that closed it. `NoSharing` is kept because `dup`
copies within one table and an open's description is nobody else's; `AliveIsLedTo` needs
`NoSharing`, and the finite cardinality of a description's holders. The steps of an open
add two parts. `MadeIsNew`: a description that an open has made and not yet put into a
table is new, led to by no descriptor, and no other open has it, so that a task that is
switched out just before `try_insert` finds it as it was, whatever others open and close.
`OneAppends`: one task at most is between the beginning of its append and `take`, its
place is the one behind the end before it is constructed and the last one after, and
`m_count` is the length but for the two steps in which it is one behind. This is what
makes the value in a register and the one in memory the same, and the last place that of
the task that looks. Of `mixed` states `FInv` keeps the types only.

The second half is about the shell. Its steps are steps of the tables or leave them
alone, so both theorems hold of `ShellSpec` too (`ShellFilesInvariant`,
`ShellDescriptorsStay`). `StdioIsUart` is not inductive: that `dup` puts the UART in
the place of descriptor 0 depends on that place being free and every smaller one not,
at one point of the script, after an open that must not have taken it. `ScriptInv`
says, until `mixed`, for each place of the script, which of the two descriptors are open
and which is free (`Occupied`, `Vacant`), which descriptors the shell has at hand and what
they lead to, and that those are above 1 (`AtHand`), what 0 and 1 lead to already
(`Standard`), and what file the shell's open under way
has made (`Underway`). The other task's steps
keep it, because descriptor tables are apart and descriptions stay what they are. From it
follow `StdioStaysUart`, `AssertionsNeedMemory` (every way to `failed` is a call that got
no memory) and `ZeroStaysInBuffer`, of each read of the shell: it does not fail, and
returns less than the buffer has. The assumptions: tasks close no descriptor they have
duplicated, and a table has room for two (`MaxFds >= 2`; the shell's has no limit but
memory).

**ExceptionsProofs.** `ExceptionsInvariant`, `ContextIsKept` and
`CallsAlwaysComeBack` prove `ExceptionsInv`, `UserContextKept` and `CallsComeBack`
for any tasks. None is inductive: what `Return` loads depends on the frames, and
these on where the task was when it was last interrupted or switched out. `EInv`
gives the frames and saved registers of every task as a function of its place, in
three kinds. A user task in the kernel has a first frame that leads back to its
user code, and perhaps a second, of an interrupt in its call or just before its
return state is restored; while the second is there interrupts are masked, which
is why there is no third. A kernel task is only interrupted where it spins. A task
that was interrupted after `elr_el1` was restored is torn: after `spsr_el1` it goes round
in the kernel's way out of a call, and before it, it comes to be at EL0 in the kernel's
text. There it can be interrupted again, or fault, but never gets back to its user code,
which is the last part of `ExceptionsInv`; and it is the only exception to its type
invariant, by which what runs at EL0 is user code.
Each action changes the memory of the running task only (`OthersSleep`), so that
what is left is one lemma per action about that task, and for a switch what is
saved of one (`SavedSleeps`) and what the other is started with (`StartedRuns`).
`ExceptionsAssumption` has places in user code differ from places in the kernel.

**PagesProofs.** `PagesInvariant`, `PagesAreKept` and `SearchesFind` prove `PagesInv`,
`PagesStay` and `ReturnsWhatIsAsked` for any memory, alignments, sizes, reservations,
runway and number of nodes. `PagesInv` is not inductive: that regions share no page
says nothing of one that was given out and taken as runway too, and lists that fit
their regions fit the halves only if offsets are multiples of powers. `PagesIInv` is
one layout (`Layout`): the broker's structure (`BrokerInv`: a node whose bit is set is
in one list, once, with an aligned region of that list's length), and the regions of
nodes, callers and the runway are inside the memory and pairwise apart, where a region
in the runway is no caller's. Every operation is composed of three changes of it: a
region in hand becomes a node (`CreateKeepsLayout`), a node's region comes into a hand
(`RemoveKeepsLayout`), and a region is replaced by its halves (`SplitKeepsLayout`); each
also says that all pages are still there, which is `PagesStay`. `TrimKeeps` carries them
through the halving loop, whichever way it stops. The loop and the powers of two
are recursive functions, so that they exist is shown first (`PowersDefined`,
`TrimmingExists`), by the least number principle; `AlignUpToPower` and `LargeEnough` say
that the search starts at a list that is low enough, and that the loop never ends below
the size asked for; `HalfContains`, that a reservation of a region that has the length of
a list ends at exactly that region, unless nodes run out. `InsertBehind` and
`WithoutPlace` are the lists. The assumptions are that the memory is one region of a
list, aligned to its length (the MMU code has two, of 2^17 and 2^20 pages from page 0),
and at most `WordBits` nodes; both are needed, see section 6.

*Vector.* The next part is about `Vector`. `VectorEntriesInStorage` and
`VectorKeepsItems` prove `EntriesInStorage` and `ItemsAreKept` under `VectorInUse`:
entries have one byte, or there are never more of them than the least capacity. Without
it both are false, since a capacity in bytes lets more be appended than fit; under it the
invariant is that the memory has room for the capacity that `append` compares with, or
for the least capacity (`VectorIInv`). `BytesHaveCapacity` is the positive side of the
finding in section 6: for entries of one byte `CapacityIsInEntries` holds, in any number.
The powers of two of `Page` outgrow their index, so that `align_capacity` is never less
than what was asked for.

*Mmu.* The last part is about `Mmu`, for any sizes of sections, tables and both memories
that `MmuAssumption` allows, any sequence of calls, and any code size. What the tables
translate is read through `At`, the entry of an L1 index and an L2 index, so that a
translation is the same thing whether a section or an L2 table holds it (`WalkIsAt`).

- One table: `TakeTableTakes`, `LinkedTable` and `FillTableFills` say that taking,
  clearing and linking a table changes no translation (it is linked nowhere else, which
  is `TablesLinked`), and filling it changes just the entries it names.
- One region: `RecordPagesWrites` goes along the L1 entries of a region, by the least
  entry for which the claim fails. The slices of a region do not meet, because the region
  has the length of a list and is aligned to it (`SliceInSection`, `SliceIndexes`).
- Two brokers: `Gives` is what `PagesIInv`'s layout says of a call to one broker in terms
  of its free pages, `TakesBoth` of a call that needs both, `Outcome` of a whole call. It
  fails and changes no translation, or the pages it returns were free in both brokers,
  are not any more, and are translated; or a table was missing.
- Boot: `BootSucceeds` follows the four reservations of `init_page_tables`.

From these, as long as no table is missing (`[]TablesLast`, which is `[]~mmu.exhausted`),
`MmuInvariant` proves `MmuInv`, `TranslationsAreKept` proves `TranslationsStay`, and
`BootStaysIdentity` that `BootIsIdentity` is never lost once boot has established it. The
invariant is `Sound`: tables are linked once and marked, and each broker has a layout.
What is handed out needs more: no free virtual page is translated (`Clean`), which is why
recording never finds an entry in use, and each page of a caller is translated, free in
neither broker and nobody else's (`Owned`). With it `PagesAreMapped` proves
`HandedIsMapped` and `PagesAreApart` proves `HandedApart`. Their hypotheses:

- `WithinLimits`, always: no table is missing; both brokers have a node left, since without
  one halving stops early and the two regions of a call may differ in length; and no
  page is taken from the part of virtual memory that the L1 table has no entries for,
  where 10 bits of index would alias two sections. `mmu_tables` has behaviours of five
  calls within these limits.
- `ReservedFit`: a region that is reserved is mapped to itself or has the length of a list
  and is aligned to it. Otherwise the virtual region that comes back may be
  larger than the physical one, at which `reserve_region` panics.
- For `PagesAreApart` and `BootStaysIdentity`, that the property holds after boot. That
  depends on where two brokers happen to find the same regions, section by section, and
  is checked by TLC, for every code size of the run.

None of them looks ahead: what leads up to a state is itself a behaviour that stops there,
so each theorem holds of every state up to which its limits have held.

**With TLC only.** Liveness (`FinishedIoWakesTask`, `WriteReturns`,
`ReadReturns`), which the proof system does not reach. Of `Mmu`, the state that boot
leaves behind (the last point above), and `MmuInv`, `BootIsIdentity` and
`TranslationsStay` once a table was missing: then `MoreTables` is defined by way of
itself with nothing that gets smaller, and a region may be given back to a broker that
never had it.

## 6. Where the code departs from its promises

Shown by a run that finds the property violated:

- **Capacity in bytes** (`vector_capacity`): `resize` sets `m_capacity` to the size
  of the allocation in bytes, `ensure` compares it with entries. The file table
  never uses a place again, so the ninth description is written behind the
  allocation.

In the code, and either excluded by a constant or an assumption, named in the
property, or kept in the model as what it is:

- **Timer.** `jiffies_since_last_match` compares `compare3 < lower_bits`. In the
  last fallback period before `lower_bits` overflows, `compare3` has wrapped and
  the comparison holds although nothing was missed: every interrupt counts for the
  fallback period. `JiffiesNeverAhead` ends there.
- **A silent timer.** The loop of `reinit` ends when `compare1` equals
  `lower_bits`, and the counter can reach `compare1` before the flag is cleared.
  The comment relies on `compare3` to catch this, but only interrupt 1 is enabled
  and looked at; the timer is silent until the overflow.
- **A request of zero bytes** is finished from the start, but its call unmasks the
  interrupt of its direction, and only the handler masks it. When the next call
  goes in the other direction, an interrupt of the first direction finds a request
  it cannot serve: the handler moves no byte, masks nothing, and the interrupt is
  raised again at once. The comment in `handle_irq` asks for the opposite.
  `IrqMakesProgress` fails with 0 in `RequestSizes`; `NoEmptyRequest` is the
  assumption of the theorems about `Uart` and `Kernel`.
- **Closing a duplicate.** `dup` does not count. After open, dup and close the
  remaining descriptor leads to a destroyed file. `OpenIsAlive` fails with
  `CloseShared` TRUE; the shell closes no descriptor it has duplicated.
- **Overlapping opens.** `FileTable::open` appends to the table that all tasks share and
  then looks at its length again, and nothing keeps the scheduler from switching in
  between: two tasks get one description, and the other of the two is never given back.
  In the middle of the append two descriptions are constructed in one place, or the length
  is counted twice and the last place has nothing in it. The model has all of these
  outcomes, and records the overlap (`mixed`), at which `FilesInv`, `StdioIsUart`,
  `FailsOnlyWithoutMemory` and `ZeroIsInBuffer` end; `DescriptorsAreStable` does not. In the
  system as shipped the shell alone opens files. A second task that makes calls would
  share the kernel's allocator in the same way, which has no lock either: that two
  allocations do not overlap is assumed here as in `FreeList`.
- **A removal without memory** leaves a destroyed entry in the vector and loses the
  last one: the third case of `ItemsAreKept`.
- **Headers lost by coalescing.** `adopt_right_node_size` adds the right node's
  size and not its header. Two allocations and two frees leave a node that ends
  one header short of the memory; the bytes behind it belong to no node, and a
  free node behind them is no longer contiguous. Nothing overlaps (that is what
  the proofs show), but a long sequence of allocations and frees uses the memory
  up.
- **`printf` with a buffer that is full** frees it, gets a larger one and goes on
  writing through the pointer to the old one; when there is none it hands a null
  pointer to `free`; and `malloc`, when it fails, prints, which allocates. The
  model stops where one of these happens (`broken`), and `PrintsInItsBlock` is
  about everything else.
- **Page allocator.** The bitmap's first word stands for every word, so beyond
  `WordBits` nodes a node in use counts as free (`MaxSlabs` stays within it). The
  loop of `trim_aligned_region` ends only at the list it goes for; from a region of 5
  pages, when 5 are asked for, it would start below that list and go on beyond single
  pages (in `PagesAssumption` the memory has a power of two, as in the MMU code). The
  runway is counted in bytes against pages, a split is charged more than it takes,
  and pages taken as runway never reach the node allocator. A region that is freed
  when there is no node is gone; `PagesStay` is about the other case.
- **MMU.** The 20-bit frame of an entry is filled from a 22-bit page number, so
  frames lie four times as far up as pages (harmless in the lowest quarter:
  `FramesApart`). A region that could not be recorded is returned all the same,
  and its physical pages are given back to both brokers. Once L2 tables have run
  out allocation may call itself. The scratch section is an identity mapping by
  coincidence of two allocators (`BootIsIdentity` checks it). The index into the
  L1 table has 10 bits, so addresses a quarter of the address space apart are one
  (`HandedApart` requires that nobody is handed such).
- **AArch64 exceptions.** `irq_userspace_wrap` loads `lr` from a frame into which
  it did not store it: after an interrupt in user code `lr` is what an earlier
  frame left there (`UserContextKept` leaves it out until it is set again). The
  epilogue of a system call restores `elr_el1` and then `spsr_el1` with interrupts
  enabled, and an interrupt overwrites both. One that comes after the second sends the
  task round the epilogue again, with the kernel's state. One between the two leaves
  the address of the second instruction in `elr_el1`; that instruction then restores the
  user's state, and `eret` goes to it at EL0, where it may not be executed: the kernel
  panics. Neither task ever gets back to its user code (`ExceptionsInv`; `torn` in
  `CallsComeBack`).
  An unknown system call runs to its end with interrupts masked.
- **Outside the models.** `Task::try_create` gives the heap's end address as its
  size and returns without giving back what it had taken; the heap's base class
  points into a local that moves; `exit_running_task` goes on on a kernel stack it
  has freed; `open` returns a pointer into a vector whose entries move when it
  grows; `Display::draw_string` compares `y` with the width.

## 7. Limits

- The PL011 and the BCM2835 are external and modelled as the driver uses them:
  levels at fixed triggers, characters dropped by the device when the FIFO is
  full (so only accepted characters count as typed).
- `poll_put` waits for room with interrupts masked; how long is not modelled.
- `SleepIsNotCutShort` leaves out a sleep whose deadline wraps around: it ends at
  once, as the code's comparison has it.
- `Kernel` advances jiffies by an abstract step and does not contain
  `SystemTimer`; jiffies are exact in neither. A three-task instance of `Kernel`
  is beyond TLC's reach within minutes; the scheduler alone is checked with three,
  and the proofs are for any number.
- `Shell` and `Kernel` are not composed: what the shell reads from the UART is any
  result the device may give, and that such calls return is `ReadReturns` and
  `WriteReturns`.
- `Exceptions` is the AArch64 entry code, the default build; `Mmu` is the AArch32
  build, the only one that turns its MMU on. Access rights, caching attributes and
  the barriers of the processor are left out of both.
- Not modelled: straight-line boot code; the mailbox, which has one caller at boot
  and polls until it is answered, for ever if it is not; drawing, which changes
  only pixels; the conversion of numbers to text, `Maybe`, the type traits and the
  iterator adaptors, which have no state; task creation, which happens before
  anything runs; the address checks of system call arguments, and `uptime` and
  `cputime`, which change nothing.

## 8. Plan

1. `Scheduler`, `Uart`, `Kernel`, `SystemTimer`, `FreeList` with `Allocator`,
   `FileTable` with `Shell`, `UserHeap`, `Exceptions`, with their proofs: done.
2. `PageAllocator` with `Pages`, `Vector` and `Mmu`: done, with proofs.
3. Open: `Mmu` after its L2 tables have run out, and what boot leaves behind for any
   sizes; task creation and exit on top of `FreeList`, with the stack that
   `exit_running_task` frees while it runs on it; the wraps of AArch32.
