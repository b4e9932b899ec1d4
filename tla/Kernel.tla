------------------------------- MODULE Kernel -------------------------------
(***************************************************************************)
(* The kernel as it runs: the scheduler and the UART driver on one CPU,    *)
(* system calls with interrupts enabled, and the interrupt handler that    *)
(* serves the timer and the UART (kernel/device/bcm2835/interrupts.cpp).   *)
(*                                                                         *)
(* The shared Waitable of module Scheduler is the request of module Uart,  *)
(* and the Wake of module Uart is the scheduler's decision to run the      *)
(* caller again, which looks at nothing but m_state.                       *)
(***************************************************************************)
EXTENDS Integers, Sequences

CONSTANTS InitialTasks, SpinTask, SysHz, JiffiesModulus, TickSizes, SleepSecs,
          UartTasks, NoBuffer, RequestSizes, Chars, Break,
          FifoDepth, RxTrigger, TxTrigger

VARIABLES m_tasks, m_running_task_index, m_state, m_waiting_for,
          m_jiffies_when_scheduled, m_cpu_jiffies, jiffies, started,
          stage, m_request, buffer, imsc, rxFifo, txLevel, panicked

U == INSTANCE Uart WITH Callers <- UartTasks
S == INSTANCE Scheduler WITH IoTasks <- UartTasks,
                             ioFinished <- U!is_finished(m_request)

ASSUME KernelAssumption == U!UartAssumption /\ S!SchedulerAssumption

schedVars == <<m_tasks, m_running_task_index, m_state, m_waiting_for,
               m_jiffies_when_scheduled, m_cpu_jiffies, jiffies, started>>
uartVars == <<stage, m_request, buffer, imsc, rxFifo, txLevel, panicked>>
vars == <<schedVars, uartVars>>

Init == U!Init /\ S!Init
-----------------------------------------------------------------------------
\* The running task, between two system calls or inside a UART call.
Runs(t) == ~panicked /\ started /\ S!Running = t

\* tasks_init()
Start == UNCHANGED uartVars /\ S!start_scheduler

\* A system call that is not about the UART.
InUser(t) == Runs(t) /\ (t \in UartTasks => stage[t] = "user")

Yield(t) == InUser(t) /\ UNCHANGED uartVars /\ S!Yield
Sleep(t, secs) == InUser(t) /\ UNCHANGED uartVars /\ S!Sleep(secs)
Exit(t) == InUser(t) /\ U!print /\ S!Exit

\* A system call with an unknown number.
Reject(t) == InUser(t) /\ U!print /\ UNCHANGED schedVars

\* The steps of UARTFile::read and UARTFile::write that do not schedule.
UartCall(t) ==
  /\ Runs(t)
  /\ \/ \E size \in RequestSizes, isWrite \in BOOLEAN : U!Call(t, size, isWrite)
     \/ U!enable_irq(t)
     \/ U!TestFinished(t)
     \/ U!Return(t)
  /\ UNCHANGED schedVars

\* The call blocks.
UartWait(t) == Runs(t) /\ U!Wait(t) /\ S!WaitForIo

\* The scheduler has picked the caller again: nothing but that makes it go on.
UartResume(t) == Runs(t) /\ U!GoOn(t) /\ UNCHANGED schedVars

\* interrupts_handle_irq(): every step above leaves interrupts enabled.  The UART is
\* served before the scheduler runs, so that a task whose request it finishes can be
\* picked by the same interrupt.
ServeUart == IF U!uart_pending THEN U!handle_irq ELSE UNCHANGED uartVars

\* Mutant: the UART is served after the scheduler has decided.
TimerIrqServesLate(ticks) ==
  /\ ~panicked
  /\ ServeUart
  /\ started
  /\ S!schedule(m_state, m_waiting_for, (jiffies + ticks) % JiffiesModulus,
                U!is_finished(m_request))

\* The timer is pending, and the UART may be.
TimerIrq(ticks) ==
  /\ ~panicked
  /\ ServeUart
  /\ S!TimerInterrupt(ticks)

UartIrq ==
  /\ started
  /\ U!handle_irq
  /\ UNCHANGED schedVars

\* Characters arrive and leave whatever the CPU does.
Device == started /\ U!Device /\ UNCHANGED schedVars

TaskStep(t) ==
  \/ Yield(t)
  \/ \E secs \in SleepSecs : Sleep(t, secs)
  \/ Exit(t)
  \/ Reject(t)
  \/ t \in UartTasks /\ (UartCall(t) \/ UartWait(t) \/ UartResume(t))

Next ==
  \/ Start
  \/ \E t \in S!UserTasks : TaskStep(t)
  \/ \E ticks \in TickSizes : TimerIrq(ticks)
  \/ UartIrq
  \/ Device

Spec == Init /\ [][Next]_vars

(***************************************************************************)
(* Fairness.  A call under way goes on when its task has the CPU.  That is *)
(* strong fairness, because the timer takes the CPU away again and again:  *)
(* a time slice is an eighth of a second, enough for any one step.         *)
(* Pending interrupts are taken, since they are masked for the length of a *)
(* handler or of a scheduling decision only; the UART sends what it is     *)
(* given.  Nothing makes anybody type, and no task has to make a call.     *)
(***************************************************************************)
Fairness ==
  /\ WF_vars(Start)
  /\ \A t \in UartTasks :
       /\ SF_vars(UartCall(t) /\ stage[t] # "user")
       /\ SF_vars(UartWait(t))
       /\ SF_vars(UartResume(t))
  /\ WF_vars(\E ticks \in TickSizes : TimerIrq(ticks))
  /\ WF_vars(UartIrq)
  /\ WF_vars(started /\ U!Drain /\ UNCHANGED schedVars)

FairSpec == Spec /\ Fairness
-----------------------------------------------------------------------------
\* Where the call of task t is and what the scheduler holds of t agree: a task that waits
\* for the UART is asleep in its call, and one that is asleep there waits for the UART or
\* has its request finished.
CallFollowsTask(t) ==
  /\ m_state[t] = "Waiting" /\ m_waiting_for[t].kind = "io" => stage[t] = "waiting"
  /\ stage[t] = "waiting" =>
       \/ m_state[t] = "Waiting" /\ m_waiting_for[t].kind = "io"
       \/ U!is_finished(m_request)
  /\ stage[t] # "user" => started /\ m_request.m_buf = t
CallsFollowTasks == \A t \in UartTasks : CallFollowsTask(t)

\* The types, the agreement of calls and tasks, and the PANIC_IFs of the UART calls, which
\* do not fire: a caller goes on only when the scheduler has seen its request finished.
KernelInv == S!TypeOK /\ U!TypeOK /\ U!NoPanic /\ CallsFollowTasks

\* No lost wakeup: a task that waits for a request that has finished gets the CPU,
\* although the request may have finished before the task began to wait.
FinishedIoWakesTask ==
  \A t \in UartTasks :
    (/\ t \in S!Live /\ m_state[t] = "Waiting" /\ m_waiting_for[t].kind = "io"
     /\ U!is_finished(m_request)) ~> (S!Running = t)

\* A task that the scheduler believes to be waiting for the UART is asleep inside a UART
\* call, and while its request is unfinished an interrupt is going to come for it.
WaiterIsServed ==
  \A t \in UartTasks :
    m_state[t] = "Waiting" /\ m_waiting_for[t].kind = "io" =>
      /\ stage[t] = "waiting"
      /\ ~U!is_finished(m_request) =>
           m_request.m_buf = t /\ imsc = {U!Direction(m_request)}

\* The composition is faithful to its parts: seen from the scheduler it behaves as
\* module Scheduler says ...
ImplementsScheduler == S!Spec
\* ... and the scheduler lets a UART call go on only when its request is finished,
\* which is what module Uart assumes of Wake.
ImplementsUart == U!Spec

\* A write ends: the bytes go out and the caller gets the CPU back.
WriteReturns ==
  \A t \in UartTasks :
    (stage[t] # "user" /\ m_request.m_is_write_request) ~> (stage[t] = "user")

\* A read ends once the receive interrupt is raised with a line end in the FIFO.  (A
\* line end that leaves the FIFO below its trigger level waits for the next character:
\* only RXIM is unmasked, not the receive timeout.)
ReadReturns ==
  \A t \in UartTasks :
    (/\ stage[t] # "user" /\ ~m_request.m_is_write_request
     /\ U!RxRaised
     /\ \E i \in DOMAIN rxFifo : rxFifo[i] = Break) ~> (stage[t] = "user")
=============================================================================
