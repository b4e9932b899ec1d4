----------------------------- MODULE FileTable ------------------------------
(***************************************************************************)
(* Open files (kernel/file.cpp): one table of descriptions for the kernel, *)
(* and a table of descriptors for each task that points into it.           *)
(*                                                                         *)
(* A description is named by its place in m_files.  Entries do not move    *)
(* before the vector outgrows its first allocation, which is made when the *)
(* first task is created and which MaxFiles stays within (see module       *)
(* Vector).  Memory may run out at every allocation.                       *)
(*                                                                         *)
(* System calls run with interrupts on and the scheduler switches in the   *)
(* kernel.  Tasks share m_files, so an open is one step for each access to *)
(* it up to the one that gives the task its description; the descriptors   *)
(* are the task's own.  The kernel's allocator, which they share as well,  *)
(* gives apart what it gives (module FreeList) or gives nothing.           *)
(***************************************************************************)
EXTENDS Integers, Sequences, FiniteSets

CONSTANTS
  Tasks,
  RefModulus,   \* m_ref_count is an unsigned of this many values
  MaxFiles,     \* bound: places of m_files, within its first allocation
  MaxFds,       \* bound: length of a descriptor table
  CloseShared   \* whether tasks close a descriptor while a duplicate is open

ASSUME FileTableAssumption ==
  /\ IsFiniteSet(Tasks)
  /\ RefModulus \in Nat \ {0, 1}
  /\ MaxFiles \in Nat /\ MaxFds \in Nat
  /\ CloseShared \in BOOLEAN

VARIABLES
  m_files,        \* storage of the vector: descriptions in the order of their places
  m_count,        \* what the vector takes for its length
  opening,        \* for each task, how far its open has come and what it has at hand
  mixed,          \* history: an open has begun while another had not got its description
  m_descriptors,  \* for each task, the descriptions its descriptors point to
  running         \* tasks that have not exited

vars == <<m_files, m_count, opening, mixed, m_descriptors, running>>

nullptr == 0

\* A new FileDescription, which is alive until its destructor gives its File back.
\* Which device it is and the mode, which read and write look at, never change.
FileDescription == [m_ref_count |-> 1, alive |-> TRUE]

\* What is in a place that counts but where nothing was made.
Unmade == [m_ref_count |-> 0, alive |-> FALSE]

\* How far an open has come: the steps up to the one that gives it its description, and
\* those after its description was made.
InAppend == {"emplace", "load", "count", "take"}
Made == {"load", "count", "take", "insert"}
Idle(t) == opening[t].at = "none"
Reaches(t, at, d) == opening' = [opening EXCEPT ![t] = [at |-> at, d |-> d]]

\* Sequence s with x at place i, which may be the one behind its end.
Put(s, i, x) == [k \in DOMAIN s \cup {i} |-> IF k = i THEN x ELSE s[k]]

\* Descriptors of all tasks that point to description d.
Holders(d) ==
  {tf \in Tasks \X (1 .. MaxFds) :
     tf[2] <= Len(m_descriptors[tf[1]]) /\ m_descriptors[tf[1]][tf[2]] = d}
-----------------------------------------------------------------------------
\* FileTable::close; the count is unsigned.
Release(files, d) ==
  LET count == (files[d].m_ref_count - 1) % RefModulus
  IN  [files EXCEPT ![d] = [m_ref_count |-> count, alive |-> @.alive /\ count # 0]]

\* Mutant: the last place counts as free.
FreePlacesLast(table) ==
  IF table # <<>> THEN {Len(table)} ELSE {1}

\* Mutant: places are not used again.
FreePlacesEnd(table) == {Len(table) + 1}

\* Where try_insert puts a pointer: the first free place, or a new one at the end.
FreePlaces(table) ==
  {i \in 1 .. Len(table) + 1 :
     /\ i \in DOMAIN table => table[i] = nullptr
     /\ \A h \in 1 .. i - 1 : table[h] # nullptr}

\* try_insert, when it returns a descriptor.
try_insert(t, d) ==
  \E i \in FreePlaces(m_descriptors[t]) :
    /\ i <= MaxFds
    /\ m_descriptors' = [m_descriptors EXCEPT ![t] = Put(@, i, d)]

\* try_insert returns -1 when the table has no free place and cannot grow.
InsertFails(t) == \A i \in DOMAIN m_descriptors[t] : m_descriptors[t][i] # nullptr
-----------------------------------------------------------------------------
(***************************************************************************)
(* FileDescriptorTable::open.  When there is no memory for the File or for *)
(* its description nothing has changed.                                    *)
(***************************************************************************)
\* Vector::append of FileTable::open begins: the place behind the last that counts.
append(t) ==
  /\ Idle(t)
  /\ m_count + Cardinality({u \in Tasks : opening[u].at \in InAppend \ {"take"}}) < MaxFiles
  /\ Reaches(t, "emplace", m_count + 1)
  /\ mixed' = (mixed \/ \E u \in Tasks : opening[u].at \in InAppend)
  /\ UNCHANGED <<m_files, m_count, m_descriptors, running>>

\* The description is constructed there.
emplace(t) ==
  /\ opening[t].at = "emplace"
  /\ m_files' = Put(m_files, opening[t].d, FileDescription)
  /\ Reaches(t, "load", opening[t].d)
  /\ UNCHANGED <<m_count, mixed, m_descriptors, running>>

\* ++m_count, of the count that a register still holds or of the one in memory, ...
load(t) ==
  /\ opening[t].at = "load"
  /\ \E d \in {opening[t].d, m_count + 1} : Reaches(t, "count", d)
  /\ UNCHANGED <<m_files, m_count, mixed, m_descriptors, running>>

\* ... and its store.
count(t) ==
  /\ opening[t].at = "count"
  /\ m_count' = opening[t].d
  /\ m_files' = IF m_count' \in DOMAIN m_files THEN m_files ELSE Put(m_files, m_count', Unmade)
  /\ Reaches(t, "take", m_count')
  /\ UNCHANGED <<mixed, m_descriptors, running>>

\* &m_files[m_files.length() - 1], again of a register or of the memory.
take(t) ==
  /\ opening[t].at = "take"
  /\ \E d \in {opening[t].d, m_count} : Reaches(t, "insert", d)
  /\ UNCHANGED <<m_files, m_count, mixed, m_descriptors, running>>

Makes(t) == append(t) \/ emplace(t) \/ load(t) \/ count(t) \/ take(t)

\* The descriptor, and the end of the open.
open(t) ==
  /\ opening[t].at = "insert"
  /\ try_insert(t, opening[t].d)
  /\ Reaches(t, "none", nullptr)
  /\ UNCHANGED <<m_files, m_count, mixed, running>>

\* The description was made but there is no memory for the descriptor.
OpenFails(t) ==
  /\ opening[t].at = "insert"
  /\ InsertFails(t)
  /\ m_files' = Release(m_files, opening[t].d)
  /\ Reaches(t, "none", nullptr)
  /\ UNCHANGED <<m_count, mixed, m_descriptors, running>>
-----------------------------------------------------------------------------

\* The descriptors that try_get, close and dup accept.
OpenFds(t) == {fd \in DOMAIN m_descriptors[t] : m_descriptors[t][fd] # nullptr}

\* Mutant: the descriptor keeps its pointer.
closeKeeps(t, fd) ==
  LET d == m_descriptors[t][fd] IN
  /\ Idle(t) /\ fd \in OpenFds(t)
  /\ CloseShared \/ Cardinality(Holders(d)) = 1
  /\ m_files' = Release(m_files, d)
  /\ UNCHANGED <<m_count, opening, mixed, m_descriptors, running>>

close(t, fd) ==
  LET d == m_descriptors[t][fd] IN
  /\ Idle(t) /\ fd \in OpenFds(t)
  /\ CloseShared \/ Cardinality(Holders(d)) = 1
  /\ m_files' = Release(m_files, d)
  /\ m_descriptors' = [m_descriptors EXCEPT ![t][fd] = nullptr]
  /\ UNCHANGED <<m_count, opening, mixed, running>>

\* The description is not told of its new descriptor.
dup(t, fd) ==
  /\ Idle(t) /\ fd \in OpenFds(t)
  /\ try_insert(t, m_descriptors[t][fd])
  /\ UNCHANGED <<m_files, m_count, opening, mixed, running>>

\* The table goes with its task; nothing is closed.
Exit(t) ==
  /\ Idle(t)
  /\ running' = running \ {t}
  /\ m_descriptors' = [m_descriptors EXCEPT ![t] = <<>>]
  /\ UNCHANGED <<m_files, m_count, opening, mixed>>
-----------------------------------------------------------------------------
Init ==
  /\ m_files = <<>> /\ m_count = 0
  /\ opening = [t \in Tasks |-> [at |-> "none", d |-> nullptr]]
  /\ mixed = FALSE
  /\ m_descriptors = [t \in Tasks |-> <<>>]
  /\ running = Tasks

Next ==
  \E t \in running :
    \/ Makes(t) \/ open(t) \/ OpenFails(t)
    \/ \E fd \in OpenFds(t) : close(t, fd) \/ dup(t, fd)
    \/ Exit(t)

Spec == Init /\ [][Next]_vars
-----------------------------------------------------------------------------
TypeOK ==
  /\ m_files \in Seq([m_ref_count : 0 .. RefModulus - 1, alive : BOOLEAN])
  /\ m_count \in 0 .. Len(m_files)
  /\ opening \in [Tasks -> [at : {"none", "insert"} \cup InAppend, d : 0 .. Len(m_files) + 1]]
  /\ \A t \in Tasks :
       /\ opening[t].at # "none" => opening[t].d > 0
       /\ opening[t].at \in {"load", "take", "insert"} => opening[t].d <= Len(m_files)
       /\ opening[t].at = "take" => m_count > 0
  /\ mixed \in BOOLEAN
  /\ m_descriptors \in [Tasks -> Seq(0 .. Len(m_files))]
  /\ running \subseteq Tasks

\* read and write find a File behind every open descriptor, whatever was opened,
\* duplicated and closed before: setup_uart_as_stdio duplicates to "Make /dev/uart0
\* stdin and stdout" (shell.cpp) for the life of the shell.
OpenIsAlive == \A t \in running : \A fd \in OpenFds(t) : m_files[m_descriptors[t][fd]].alive

\* Tasks do not meet in a description, so none can close another's file although all
\* descriptions are in one table.
TasksAreApart ==
  \A d \in DOMAIN m_files : \A h1, h2 \in Holders(d) : h1[1] = h2[1]

\* A File that no descriptor leads to, and no open is about to, has been given back, also
\* when open failed half way; what a task had open when it exited is not.
ClosedIsReleased ==
  running = Tasks =>
    \A d \in DOMAIN m_files :
      Holders(d) = {} /\ (\A t \in Tasks : opening[t].at \in Made => opening[t].d # d)
        => ~m_files[d].alive

\* The invariant of the tables: their type, and the three properties above for as long
\* as no open has begun in the middle of another's append.  In the system as shipped the
\* shell alone opens files, but nothing in FileTable::open keeps two tasks from it:
\* they may come out with one description (file.cpp:50), and one of them may be lost.
FilesInv == TypeOK /\ (~mixed => OpenIsAlive /\ TasksAreApart /\ ClosedIsReleased)

\* A descriptor leads to the same description until it is closed, whatever other
\* descriptors come and go; the shell keeps 0 and 1 for good.
DescriptorsAreStable ==
  [][\A t \in running' : \A fd \in OpenFds(t) :
       m_descriptors'[t][fd] \in {m_descriptors[t][fd], nullptr}]_vars
=============================================================================
