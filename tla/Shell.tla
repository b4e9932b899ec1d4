------------------------------- MODULE Shell --------------------------------
(***************************************************************************)
(* The shell (userspace/shell.cpp, lib.cpp) on the kernel's file tables,   *)
(* with its system calls (kernel/syscall.cpp, Task in kernel/tasks.cpp)    *)
(* and the devices behind them (kernel/file.cpp, pseudo_devices.hpp,       *)
(* DisplayFile in display.cpp).  The other tasks make any calls.           *)
(*                                                                         *)
(* Descriptor fd of the code is place fd + 1 of the table.  User code does *)
(* not interleave with itself, so a call and the assertion about its       *)
(* result are one step.  What UART reads and writes do is module Uart.     *)
(***************************************************************************)
EXTENDS FileTable

CONSTANTS
  shell,    \* the task that runs the shell
  BufSize,  \* bytes of the shell's buffer
  Message,  \* length of what is written to the display
  OtherFds  \* bound: length of the other tasks' descriptor tables

ASSUME ShellAssumption ==
  /\ shell \in Tasks
  /\ BufSize \in Nat \ {0} /\ Message \in Nat \ {0} /\ OtherFds \in Nat
  /\ MaxFds >= 2  \* every task starts with two descriptors

VARIABLES
  file,     \* device and mode of every description
  place,    \* the next call of the shell
  fds,      \* its uart_read_fd, uart_write_fd and display_fd
  result,   \* what its last call returned
  starved   \* history: an allocation for the shell has failed

script == <<place, fds, result, starved>>
shellVars == <<vars, file, script>>

STDIN == 1
STDOUT == 2
Failure == -1
None == 0
-----------------------------------------------------------------------------
(***************************************************************************)
(* System calls of the shell.                                              *)
(***************************************************************************)
Null == [device |-> "null", mode |-> "Write"]
Mode(d) == file[d].mode
Device(d) == file[d].device

\* FileDescription::read and write check the mode, and the devices know what they return.
\* Mutant: only descriptions for reading and writing may be read.
CanReadBoth(d) == Mode(d) = "ReadWrite"
CanRead(d) == Mode(d) # "Write"
CanWrite(d) == Mode(d) # "Read"

DeviceReads(d, n) ==
  CASE Device(d) = "null" -> {0}
    [] Device(d) = "zero" -> {n}
    [] Device(d) = "uart0" -> 0 .. n
    [] Device(d) = "display" -> 0 .. n

\* There may be no memory for what the display shows.
DeviceWrites(d, n) == IF Device(d) = "display" THEN {n, Failure} ELSE {n}

\* Task::read and Task::write.  A description that is not alive may give anything.
ReadResults(t, fd, n) ==
  IF fd \notin OpenFds(t) THEN {Failure}
  ELSE IF ~m_files[m_descriptors[t][fd]].alive THEN Failure .. n
  ELSE IF ~CanRead(m_descriptors[t][fd]) THEN {Failure}
  ELSE DeviceReads(m_descriptors[t][fd], n)
WriteResults(t, fd, n) ==
  IF fd \notin OpenFds(t) THEN {Failure}
  ELSE IF ~m_files[m_descriptors[t][fd]].alive THEN Failure .. n
  ELSE IF ~CanWrite(m_descriptors[t][fd]) THEN {Failure}
  ELSE DeviceWrites(m_descriptors[t][fd], n)

\* The steps of an open of f before the one that returns.
MakesFile(t, f) ==
  \/ (append(t) \/ load(t) \/ take(t)) /\ UNCHANGED file
  \/ emplace(t) /\ file' = Put(file, opening[t].d, f)
  \/ /\ count(t)
     /\ file' = IF m_count' \in DOMAIN file THEN file ELSE Put(file, m_count', Null)

\* open() returns: the file, its description or its descriptor may find no memory.
Opened ==
  \/ /\ open(shell)
     /\ result' \in FreePlaces(m_descriptors[shell])
     /\ UNCHANGED <<file, starved>>
  \/ /\ OpenFails(shell)
     /\ result' = Failure /\ starved' = TRUE /\ UNCHANGED file
  \/ /\ Idle(shell) /\ UNCHANGED <<vars, file>>
     /\ result' = Failure /\ starved' = TRUE

\* close(), of a descriptor that is open or of another.
Closed(fd) ==
  \/ close(shell, fd) /\ result' = 0 /\ UNCHANGED <<file, starved>>
  \/ /\ fd \notin OpenFds(shell)
     /\ result' = Failure /\ UNCHANGED <<vars, file, starved>>

\* dup(); the table may have to grow.
Duplicated(fd) ==
  \/ /\ dup(shell, fd)
     /\ result' \in FreePlaces(m_descriptors[shell])
     /\ UNCHANGED <<file, starved>>
  \/ /\ fd \notin OpenFds(shell)
     /\ result' = Failure /\ UNCHANGED <<vars, file, starved>>
  \/ /\ fd \in OpenFds(shell) /\ InsertFails(shell)
     /\ result' = Failure /\ starved' = TRUE /\ UNCHANGED <<vars, file>>

\* What read() in lib.cpp asks the kernel for, and where it then writes a zero.
\* Mutant: no room is left for it.
AskedWhole(n) == n
Asked(n) == n - 1
Read(fd, n) ==
  /\ result' \in ReadResults(shell, fd, Asked(n))
  /\ UNCHANGED <<vars, file, starved>>
Written(fd, n) ==
  /\ result' \in WriteResults(shell, fd, n)
  /\ starved' = (starved \/ (result' = Failure /\ fd \in OpenFds(shell)
                               /\ Device(m_descriptors[shell][fd]) = "display"))
  /\ UNCHANGED <<vars, file>>
-----------------------------------------------------------------------------
(***************************************************************************)
(* The shell.  An assertion that fails prints and exits.                   *)
(***************************************************************************)
At(p) == place = p /\ shell \in running
Goto(p, Holds(_)) == place' = IF Holds(result') THEN p ELSE "failed"
IsFd(r) == r > STDIN
IsDone(r) == r >= 0

\* What the shell opens.
Asks == [open_read    |-> [device |-> "uart0", mode |-> "Read"],
         open_write   |-> [device |-> "uart0", mode |-> "Write"],
         open_display |-> [device |-> "display", mode |-> "ReadWrite"]]
Opening ==
  /\ place \in DOMAIN Asks /\ At(place)
  /\ MakesFile(shell, Asks[place])
  /\ UNCHANGED script

\* setup_uart_as_stdio.
OpenUartRead ==
  /\ At("open_read") /\ Opened
  /\ Goto("open_write", IsFd) /\ fds' = [fds EXCEPT !.uart_read = result']
OpenUartWrite ==
  /\ At("open_write") /\ Opened
  /\ Goto("close_in", IsFd) /\ fds' = [fds EXCEPT !.uart_write = result']
CloseIn == At("close_in") /\ Closed(STDIN) /\ Goto("dup_in", IsDone) /\ UNCHANGED fds
DupIn == At("dup_in") /\ Duplicated(fds.uart_read) /\ Goto("close_out", IsDone) /\ UNCHANGED fds
CloseOut == At("close_out") /\ Closed(STDOUT) /\ Goto("dup_out", IsDone) /\ UNCHANGED fds
DupOut ==
  At("dup_out") /\ Duplicated(fds.uart_write) /\ Goto("open_display", IsDone) /\ UNCHANGED fds

\* display_welcome.
OpenDisplay ==
  /\ At("open_display") /\ Opened
  /\ Goto("write_display", IsFd) /\ fds' = [fds EXCEPT !.display = result']
WriteDisplay ==
  /\ At("write_display") /\ Written(fds.display, Message)
  /\ Goto("close_display", LAMBDA r : r > 0) /\ UNCHANGED fds
CloseDisplay ==
  At("close_display") /\ Closed(fds.display) /\ Goto("buffer", IsDone) /\ UNCHANGED fds

\* shell(): the buffer, and then prompts and commands.  What a command prints goes the
\* way of the prompt, and its result is not looked at.
Buffer ==
  /\ At("buffer")
  /\ \/ place' = "prompt" /\ UNCHANGED starved
     \/ place' = "failed" /\ starved' = TRUE
  /\ UNCHANGED <<vars, file, fds, result>>
Prompt == At("prompt") /\ Written(STDOUT, 1) /\ place' = "read" /\ UNCHANGED fds
ReadCommand == At("read") /\ Read(STDIN, BufSize) /\ Goto("run", IsDone) /\ UNCHANGED fds
RunCommand ==
  /\ At("run") /\ place' \in {"prompt", "exit"}
  /\ UNCHANGED <<vars, file, fds, result, starved>>

\* exit(0), or exit(1) after an assertion.
ExitShell ==
  /\ At("exit") \/ At("failed")
  /\ Exit(shell)
  /\ UNCHANGED <<file, script>>
-----------------------------------------------------------------------------
\* Task::try_create opens /dev/zero and /dev/null for every task.
Order == CHOOSE s \in [1 .. Cardinality(Tasks) -> Tasks] : \A t \in Tasks : \E i \in DOMAIN s : s[i] = t
ShellInit ==
  /\ m_count = 2 * Cardinality(Tasks)
  /\ m_files = [d \in 1 .. m_count |-> FileDescription]
  /\ file = [d \in 1 .. m_count |->
               IF d % 2 = 1 THEN [device |-> "zero", mode |-> "Read"] ELSE Null]
  /\ opening = [t \in Tasks |-> [at |-> "none", d |-> nullptr]]
  /\ mixed = FALSE
  /\ m_descriptors = [t \in Tasks |->
       LET i == CHOOSE i \in DOMAIN Order : Order[i] = t IN <<2 * i - 1, 2 * i>>]
  /\ running = Tasks
  /\ place = "open_read"
  /\ fds = [uart_read |-> None, uart_write |-> None, display |-> None]
  /\ result = None
  /\ starved = FALSE

\* The calls of another task.  What it reads and writes changes nothing here, and which
\* device it opens the shell cannot tell.
OtherOpens(t) ==
  /\ \/ MakesFile(t, Null)
     \/ (open(t) \/ OpenFails(t)) /\ UNCHANGED file
  /\ Len(m_descriptors'[t]) <= OtherFds
  /\ UNCHANGED script
OtherCalls(t) ==
  /\ \/ \E fd \in OpenFds(t) : close(t, fd) \/ dup(t, fd)
     \/ Exit(t)
  /\ Len(m_descriptors'[t]) <= OtherFds
  /\ UNCHANGED <<file, script>>

ShellNext ==
  \/ Opening \/ OpenUartRead \/ OpenUartWrite \/ CloseIn \/ DupIn \/ CloseOut \/ DupOut
  \/ OpenDisplay \/ WriteDisplay \/ CloseDisplay
  \/ Buffer \/ Prompt \/ ReadCommand \/ RunCommand \/ ExitShell
  \/ \E t \in running \ {shell} : OtherOpens(t) \/ OtherCalls(t)

ShellSpec == ShellInit /\ [][ShellNext]_shellVars
-----------------------------------------------------------------------------
\* Once it is set up, the shell reads from the UART and writes to it, for as long as it
\* runs: "Make /dev/uart0 stdin and stdout" (shell.cpp).  This rests on dup taking the
\* descriptor that was closed last, and on no open of another having begun or ended in
\* the middle of an append of the shell's (file.cpp:47-50).
StdioIsUart ==
  ~mixed /\ place \in {"buffer", "prompt", "read", "run"} /\ shell \in running =>
    /\ {STDIN, STDOUT} \subseteq OpenFds(shell)
    /\ LET in == m_descriptors[shell][STDIN]
           out == m_descriptors[shell][STDOUT]
       IN  /\ Device(in) = "uart0" /\ CanRead(in) /\ m_files[in].alive
           /\ Device(out) = "uart0" /\ CanWrite(out) /\ m_files[out].alive

\* No assertion of the shell fails unless memory has run out, or unless the steps of two
\* appends have been mixed, which leaves the shell a descriptor that is not its own.
FailsOnlyWithoutMemory == place = "failed" /\ ~mixed => starved

\* The zero that read() writes behind what was read, before anything looks at the result,
\* is in the buffer: a call that failed would put it before the buffer, and one that
\* filled the buffer behind it.
ZeroIsInBuffer ==
  [][place = "read" /\ place' # place /\ ~mixed => result' \in 0 .. BufSize - 1]_shellVars
=============================================================================
