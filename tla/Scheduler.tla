------------------------------ MODULE Scheduler ------------------------------
(***************************************************************************)
(* The round-robin scheduler of the kernel: class TaskManager and the      *)
(* scheduling half of class Task (kernel/tasks.cpp).                       *)
(*                                                                         *)
(* There is one CPU.  Every scheduling decision is taken with interrupts   *)
(* masked, either by the timer interrupt handler or inside a system call   *)
(* that holds an InterruptDisabler, so a decision is one atomic step.      *)
(* There are no wait queues: a task that waits points at a Waitable, and   *)
(* the scheduler polls that Waitable whenever its turn comes.              *)
(*                                                                         *)
(* What the tasks wait for besides time is one shared Waitable (the UART   *)
(* request of kernel/device/pl011/uart.cpp).  This module only knows       *)
(* whether it is finished; module Kernel puts the real one in its place.   *)
(***************************************************************************)
EXTENDS Integers, Sequences

CONSTANTS
  InitialTasks,    \* m_tasks as the TaskManager constructor leaves it
  SpinTask,        \* the kernel task that only spins
  IoTasks,         \* the user tasks that use the shared Waitable
  SysHz,           \* SYS_HZ, jiffies per second
  JiffiesModulus,  \* number of values of the u32 that holds jiffies
  TickSizes,       \* by how much one timer interrupt may advance jiffies
  SleepSecs        \* arguments of the sleep system call

Tasks == {InitialTasks[i] : i \in DOMAIN InitialTasks}
UserTasks == Tasks \ {SpinTask}
Jiffies == 0 .. JiffiesModulus - 1

ASSUME SchedulerAssumption ==
  /\ InitialTasks \in Seq(Tasks)
  /\ \A i, j \in DOMAIN InitialTasks :
        InitialTasks[i] = InitialTasks[j] => i = j
  /\ Len(InitialTasks) > 0
  /\ InitialTasks[Len(InitialTasks)] = SpinTask
  /\ IoTasks \subseteq UserTasks
  /\ SysHz \in Nat
  /\ JiffiesModulus \in Nat \ {0}
  /\ TickSizes \subseteq Nat
  /\ SleepSecs \subseteq Nat

VARIABLES
  m_tasks,                   \* the vector of tasks
  m_running_task_index,      \* 0-based index of the running task in m_tasks
  m_state,                   \* Task::m_state of every task
  m_waiting_for,             \* Task::m_waiting_for of every task
  m_jiffies_when_scheduled,  \* jiffies when the task was last given the CPU
  m_cpu_jiffies,             \* CPU time of the task up to its last switch
  jiffies,                   \* jiffies()
  started,                   \* start_scheduler() has run
  ioFinished                 \* is_finished() of the shared Waitable

schedVars == <<m_tasks, m_running_task_index, m_state, m_waiting_for,
               m_jiffies_when_scheduled, m_cpu_jiffies, jiffies, started>>
vars == <<m_tasks, m_running_task_index, m_state, m_waiting_for,
          m_jiffies_when_scheduled, m_cpu_jiffies, jiffies, started,
          ioFinished>>

State == {"New", "Runnable", "Waiting"}
Waitable == [kind : {"none", "sleep", "io"}, end : Jiffies]

NoWaitable == [kind |-> "none", end |-> 0]
IoWaitable == [kind |-> "io", end |-> 0]

\* u32 arithmetic: the deadline wraps like jiffies itself.
SleepWaitable(secs) ==
  [kind |-> "sleep", end |-> (jiffies + secs * SysHz) % JiffiesModulus]

\* Mutants: a sleep that ends a jiffy early; the virtual is_finished of a request never
\* called; a request that counts as finished when it is not.
IsFinishedEarly(w, j, io) ==
  \/ w.kind = "sleep" /\ w.end <= j + 1
  \/ w.kind = "io" /\ io
IsFinishedSleepOnly(w, j, io) == w.kind = "sleep" /\ w.end <= j
IsFinishedAlwaysIo(w, j, io) == w.kind = "sleep" => w.end <= j

\* is_finished() of Waitable w when the clock shows j and the shared Waitable is
\* finished or not.
IsFinished(w, j, io) ==
  \/ w.kind = "sleep" /\ w.end <= j
  \/ w.kind = "io" /\ io

Running == m_tasks[m_running_task_index + 1]

\* CPU time as the cputime system call reports it.
cputime(t) ==
  IF t = Running
  THEN (m_cpu_jiffies[t] + jiffies - m_jiffies_when_scheduled[t]) % JiffiesModulus
  ELSE m_cpu_jiffies[t]
-----------------------------------------------------------------------------
(***************************************************************************)
(* Picking a task.  The arguments s, w, j and io are the task states, the  *)
(* Waitables, the clock and the shared Waitable as the caller leaves them  *)
(* before it schedules.                                                    *)
(***************************************************************************)

\* update_state() followed by can_run().
CanRun(t, s, w, j, io) ==
  \/ s[t] \in {"New", "Runnable"}
  \/ s[t] = "Waiting" /\ IsFinished(w[t], j, io)

\* Mutant: the loop looks at the running task first.
NextIndexStays(ts, i) == IF i >= Len(ts) THEN 0 ELSE i

\* The increment with which pick_next_task starts every round of its loop.
NextIndex(ts, i) == IF i + 1 >= Len(ts) THEN 0 ELSE i + 1

\* Where the loop is after k further rounds.
After(ts, i, k) == (NextIndex(ts, i) + k) % Len(ts)

\* The index at which the loop stops: the first task, going round from the
\* one behind i, that can run.  Empty if the loop would never end.
pick_next_task(ts, i, s, w, j, io) ==
  {After(ts, i, k) : k \in
     {k \in 0 .. Len(ts) - 1 :
        /\ CanRun(ts[After(ts, i, k) + 1], s, w, j, io)
        /\ \A h \in 0 .. k - 1 : ~CanRun(ts[After(ts, i, h) + 1], s, w, j, io)}}

\* Mutants of schedule: the state of the task is not updated; start() does not take the
\* time.
scheduleNoUpdate(s, w, j, io) ==
  \E next \in pick_next_task(m_tasks, m_running_task_index, s, w, j, io) :
    /\ m_running_task_index' = next
    /\ m_state' = s
    /\ m_waiting_for' = w
    /\ jiffies' = j
    /\ UNCHANGED <<m_tasks, started, m_cpu_jiffies, m_jiffies_when_scheduled>>
scheduleNoStamp(s, w, j, io) ==
  \E next \in pick_next_task(m_tasks, m_running_task_index, s, w, j, io) :
    LET to == m_tasks[next + 1] IN
    /\ m_running_task_index' = next
    /\ m_state' = [s EXCEPT ![to] = "Runnable"]
    /\ m_waiting_for' = w
    /\ jiffies' = j
    /\ m_cpu_jiffies' = IF to = Running THEN m_cpu_jiffies
                        ELSE [m_cpu_jiffies EXCEPT ![Running] =
                               (@ + j - m_jiffies_when_scheduled[Running]) % JiffiesModulus]
    /\ UNCHANGED <<m_tasks, started, m_jiffies_when_scheduled>>

\* schedule(): pick a task and, unless it is the one that runs already, charge
\* the running one for its time and start the other.
schedule(s, w, j, io) ==
  \E next \in pick_next_task(m_tasks, m_running_task_index, s, w, j, io) :
    LET to == m_tasks[next + 1] IN
    /\ m_running_task_index' = next
    /\ m_state' = [s EXCEPT ![to] = "Runnable"]
    /\ m_waiting_for' = w
    /\ jiffies' = j
    /\ IF to = Running
       THEN UNCHANGED <<m_cpu_jiffies, m_jiffies_when_scheduled>>
       ELSE /\ m_cpu_jiffies' = [m_cpu_jiffies EXCEPT ![Running] =
                 (@ + j - m_jiffies_when_scheduled[Running]) % JiffiesModulus]
            /\ m_jiffies_when_scheduled' =
                 [m_jiffies_when_scheduled EXCEPT ![to] = j]
    /\ UNCHANGED <<m_tasks, started>>
-----------------------------------------------------------------------------
Init ==
  /\ m_tasks = InitialTasks
  /\ m_running_task_index = 0
  /\ m_state = [t \in Tasks |-> "New"]
  /\ m_waiting_for = [t \in Tasks |-> NoWaitable]
  /\ m_jiffies_when_scheduled = [t \in Tasks |-> 0]
  /\ m_cpu_jiffies = [t \in Tasks |-> 0]
  /\ jiffies = 0
  /\ started = FALSE
  /\ ioFinished = TRUE

\* tasks_init(): give the CPU to the first task, saving nothing.
start_scheduler ==
  /\ ~started
  /\ started' = TRUE
  /\ m_state' = [m_state EXCEPT ![Running] = "Runnable"]
  /\ m_jiffies_when_scheduled' =
       [m_jiffies_when_scheduled EXCEPT ![Running] = jiffies]
  /\ UNCHANGED <<m_tasks, m_running_task_index, m_waiting_for, m_cpu_jiffies,
                 jiffies, ioFinished>>

\* The interrupt handler when the timer is pending: advance jiffies, then preempt.
\* If the UART is pending too it is served in between, which may finish the request
\* before the waiting task is polled.
TimerInterrupt(ticks) ==
  /\ started
  /\ ioFinished' \in {ioFinished, TRUE}
  /\ schedule(m_state, m_waiting_for, (jiffies + ticks) % JiffiesModulus, ioFinished')

\* Only user tasks make system calls; the spin task just spins.
InSyscall == started /\ Running \in UserTasks

Yield ==
  /\ InSyscall
  /\ schedule(m_state, m_waiting_for, jiffies, ioFinished)
  /\ UNCHANGED ioFinished

\* reschedule_while_waiting_for(): there is no check that w is unfinished.
reschedule_while_waiting_for(w) ==
  /\ InSyscall
  /\ schedule([m_state EXCEPT ![Running] = "Waiting"],
              [m_waiting_for EXCEPT ![Running] = w], jiffies, ioFinished)
  /\ UNCHANGED ioFinished

Sleep(secs) == reschedule_while_waiting_for(SleepWaitable(secs))

WaitForIo ==
  /\ Running \in IoTasks
  /\ reschedule_while_waiting_for(IoWaitable)

\* Vector::remove(i), for an element that is not the last: the others are moved to newly
\* allocated memory.  The allocation finds some, because destroying the task has just
\* given its stacks back to the same allocator.
Remove(ts, i) ==
  [k \in 1 .. Len(ts) - 1 |-> IF k <= i THEN ts[k] ELSE ts[k + 1]]

\* exit_running_task(): the task is destroyed, so nothing is charged to it.
\* The index now stands on the successor of the dead task, and the loop of
\* pick_next_task increments it before it looks.
Exit ==
  /\ InSyscall
  /\ m_tasks' = Remove(m_tasks, m_running_task_index)
  /\ \E next \in pick_next_task(m_tasks', m_running_task_index,
                                m_state, m_waiting_for, jiffies, ioFinished) :
       LET to == m_tasks'[next + 1] IN
       /\ m_running_task_index' = next
       /\ m_state' = [m_state EXCEPT ![to] = "Runnable"]
       /\ m_jiffies_when_scheduled' =
            [m_jiffies_when_scheduled EXCEPT ![to] = jiffies]
  /\ UNCHANGED <<m_waiting_for, m_cpu_jiffies, jiffies, started, ioFinished>>

\* The steps after which the scheduler has decided who runs.
Decision ==
  \/ start_scheduler
  \/ \E ticks \in TickSizes : TimerInterrupt(ticks)
  \/ Yield
  \/ \E secs \in SleepSecs : Sleep(secs)
  \/ WaitForIo
  \/ Exit

\* The running task starts a request; an interrupt finishes it.
IoStep ==
  /\ \/ InSyscall /\ Running \in IoTasks /\ ioFinished' = FALSE
     \/ started /\ ~ioFinished /\ ioFinished' = TRUE
  /\ UNCHANGED schedVars

Next == Decision \/ IoStep

\* The timer keeps interrupting: spin runs with interrupts enabled, and every
\* system call ends or blocks.
Fairness == WF_vars(\E ticks \in TickSizes : TimerInterrupt(ticks))

Spec == Init /\ [][Next]_vars
FairSpec == Spec /\ Fairness
-----------------------------------------------------------------------------
TypeOK ==
  /\ m_tasks \in Seq(Tasks)
  /\ m_running_task_index \in 0 .. Len(m_tasks) - 1
  /\ m_state \in [Tasks -> State]
  /\ m_waiting_for \in [Tasks -> Waitable]
  /\ m_jiffies_when_scheduled \in [Tasks -> Jiffies]
  /\ m_cpu_jiffies \in [Tasks -> Jiffies]
  /\ jiffies \in Jiffies
  /\ started \in BOOLEAN
  /\ ioFinished \in BOOLEAN

Live == {m_tasks[i] : i \in DOMAIN m_tasks}

\* No task is in the vector twice, and the spin task stays behind the others.
TasksWellFormed ==
  /\ \A i, j \in DOMAIN m_tasks : m_tasks[i] = m_tasks[j] => i = j
  /\ Len(m_tasks) > 0
  /\ m_tasks[Len(m_tasks)] = SpinTask

\* The running task is marked runnable: nobody goes on running while the
\* scheduler believes that it waits, and a task that exits is not run again.
RunningTaskIsRunnable == started => m_state[Running] = "Runnable"

\* The spin task "will always be runnable so we never have to deal with no
\* runnable tasks" (TaskManager constructor): should the running task block now,
\* the loop of pick_next_task would still end.
SomebodyCanRun ==
  Running # SpinTask =>
    pick_next_task(m_tasks, m_running_task_index,
                   [m_state EXCEPT ![Running] = "Waiting"],
                   [m_waiting_for EXCEPT ![Running] = NoWaitable],
                   jiffies, ioFinished) # {}

\* The inductive invariant behind the three above.
SchedulerInv ==
  /\ TypeOK
  /\ TasksWellFormed
  /\ RunningTaskIsRunnable
  /\ m_state[SpinTask] # "Waiting"

\* The jiffies that pass are charged to the task that had the CPU, all of them and
\* to nobody else, whether the CPU time is read before or after a switch.
ChargesRunningTask ==
  started =>
    \A t \in Live' :
      cputime(t)' = (cputime(t) + IF t = Running THEN jiffies' - jiffies ELSE 0)
                      % JiffiesModulus
CpuTimeGoesToRunningTask == [][ChargesRunningTask]_vars
=============================================================================
