---------------------------- MODULE KernelProofs ----------------------------
(***************************************************************************)
(* Proofs about module Kernel: the composition implements the scheduler    *)
(* and the driver, and what is proved of these holds in it.  One task may  *)
(* use the UART, next to any number of others.                             *)
(*                                                                         *)
(* The invariants of the parts are kept by the steps of the parts, which   *)
(* their own modules of proofs show; what is left is that every step of    *)
(* the kernel is one of each part, or none.                                *)
(***************************************************************************)
EXTENDS Kernel, TLAPS

\* The history that MCUart and SchedulerHistory keep plays no part in what is used here.
UP == INSTANCE UartProofs WITH Callers <- UartTasks, MaxTyped <- 0,
                               typed <- <<>>, returned <- <<>>, asked <- 0
SP == INSTANCE SchedulerProofs WITH IoTasks <- UartTasks,
                                    ioFinished <- U!is_finished(m_request),
                                    passed <- <<>>, left <- <<>>

\* What module Kernel assumes is what the proofs about the parts assume.
LEMMA Assumptions == UP!UartAssumption /\ SP!SchedulerAssumption
BY KernelAssumption
DEF UP!UartAssumption, U!UartAssumption, SP!SchedulerAssumption, S!SchedulerAssumption,
    S!Tasks, SP!Tasks, S!UserTasks, SP!UserTasks

\* The modules of proofs have the definitions of the modules they extend.
LEMMA SameUartInv == U!UartInv <=> UP!UartInv
BY DEF U!UartInv, U!TypeOK, U!NoPanic, U!MaskFollowsRequest, U!CallerInv, U!is_finished,
       U!Direction, U!Stage, U!UARTRequest,
       UP!UartInv, UP!TypeOK, UP!NoPanic, UP!MaskFollowsRequest, UP!CallerInv,
       UP!is_finished, UP!Direction, UP!Stage, UP!UARTRequest

LEMMA SameUartInit == U!Init <=> UP!Init
BY DEF U!Init, UP!Init

LEMMA SameUartNext == [U!Next]_(U!vars) <=> [UP!Next]_(UP!vars)
BY DEF U!Next, U!Device, U!Drain, U!Arrive, U!handle_irq, U!print, U!PolledLevels,
       U!CallerStep, U!Wake, U!GoOn, U!At, U!Call, U!enable_irq, U!TestFinished, U!Wait,
       U!Return, U!enable, U!disable, U!try_read, U!try_write, U!LineLength, U!Minimum,
       U!uart_pending, U!RxRaised, U!TxRaised, U!is_finished, U!Direction, U!vars,
       UP!Next, UP!Device, UP!Drain, UP!Arrive, UP!handle_irq, UP!print, UP!PolledLevels,
       UP!CallerStep, UP!Wake, UP!GoOn, UP!At, UP!Call, UP!enable_irq, UP!TestFinished,
       UP!Wait, UP!Return, UP!enable, UP!disable, UP!try_read, UP!try_write,
       UP!LineLength, UP!Minimum, UP!uart_pending, UP!RxRaised, UP!TxRaised,
       UP!is_finished, UP!Direction, UP!vars

LEMMA SameSchedulerInv == S!SchedulerInv <=> SP!SchedulerInv
BY DEF S!SchedulerInv, S!TypeOK, S!TasksWellFormed, S!RunningTaskIsRunnable, S!Running,
       S!Tasks, S!State, S!Waitable, S!Jiffies,
       SP!SchedulerInv, SP!TypeOK, SP!TasksWellFormed, SP!RunningTaskIsRunnable,
       SP!Running, SP!Tasks, SP!State, SP!Waitable, SP!Jiffies

LEMMA SameSchedulerInit == S!Init <=> SP!Init
BY DEF S!Init, SP!Init, S!Tasks, SP!Tasks, S!NoWaitable, SP!NoWaitable

LEMMA SameSchedulerNext == [S!Next]_(S!vars) <=> [SP!Next]_(SP!vars)
BY DEF S!Next, S!Decision, S!IoStep, S!start_scheduler, S!TimerInterrupt, S!Yield,
       S!Sleep, S!WaitForIo, S!Exit, S!InSyscall, S!reschedule_while_waiting_for,
       S!Remove, S!schedule, S!pick_next_task, S!After, S!NextIndex, S!CanRun,
       S!IsFinished, S!Running, S!SleepWaitable, S!IoWaitable, S!UserTasks, S!Tasks,
       S!schedVars, S!vars,
       SP!Next, SP!Decision, SP!IoStep, SP!start_scheduler, SP!TimerInterrupt, SP!Yield,
       SP!Sleep, SP!WaitForIo, SP!Exit, SP!InSyscall, SP!reschedule_while_waiting_for,
       SP!Remove, SP!schedule, SP!pick_next_task, SP!After, SP!NextIndex, SP!CanRun,
       SP!IsFinished, SP!Running, SP!SleepWaitable, SP!IoWaitable, SP!UserTasks,
       SP!Tasks, SP!schedVars, SP!vars

\* So their invariants are kept by their steps.
LEMMA UartPreserved ==
  ASSUME U!OneCaller, U!NoEmptyRequest, U!UartInv, [U!Next]_(U!vars)
  PROVE  U!UartInv'
<1>1. UP!OneCaller /\ UP!NoEmptyRequest
  BY DEF U!OneCaller, U!NoEmptyRequest, UP!OneCaller, UP!NoEmptyRequest
<1>2. UP!UartInv /\ [UP!Next]_(UP!vars)
  BY SameUartInv, SameUartNext
<1>3. UP!UartInv'
  BY <1>1, <1>2, Assumptions, UP!NextPreserves
<1>4. QED
  BY <1>3, SameUartInv, PTL

LEMMA SchedulerPreserved ==
  ASSUME S!SchedulerInv, [S!Next]_(S!vars)
  PROVE  S!SchedulerInv'
<1>1. SP!SchedulerInv /\ [SP!Next]_(SP!vars)
  BY SameSchedulerInv, SameSchedulerNext
<1>2. SP!SchedulerInv'
  BY <1>1, Assumptions, SP!NextPreserves
<1>3. QED
  BY <1>2, SameSchedulerInv, PTL
-----------------------------------------------------------------------------
(***************************************************************************)
(* What a scheduling decision does to the states of the tasks.             *)
(***************************************************************************)
\* No task begins to wait by a decision itself, and one that waits for the UART goes on
\* waiting unless the decision was taken with the request finished.
Decided(s, w, io) ==
  /\ m_waiting_for' = w
  /\ \A t \in S!Tasks :
       /\ m_state'[t] = "Waiting" => s[t] = "Waiting"
       /\ s[t] = "Waiting" /\ w[t].kind = "io" /\ ~io => m_state'[t] = "Waiting"

\* pick_next_task stops at tasks that can run.
LEMMA PickedCanRun ==
  ASSUME NEW ts, NEW i, NEW s, NEW w, NEW j, NEW io,
         NEW next \in S!pick_next_task(ts, i, s, w, j, io)
  PROVE  S!CanRun(ts[next + 1], s, w, j, io)
BY DEF S!pick_next_task

LEMMA RunningOneDecides ==
  ASSUME NEW s, NEW w, NEW j, NEW io, NEW to,
         DOMAIN s = S!Tasks,
         S!CanRun(to, s, w, j, io),
         m_state' = [s EXCEPT ![to] = "Runnable"], m_waiting_for' = w
  PROVE  Decided(s, w, io)
BY DEF Decided, S!CanRun, S!IsFinished

LEMMA ScheduleDecides ==
  ASSUME NEW s, NEW w, NEW j, NEW io,
         DOMAIN s = S!Tasks,
         S!schedule(s, w, j, io)
  PROVE  Decided(s, w, io)
<1>1. PICK next \in S!pick_next_task(m_tasks, m_running_task_index, s, w, j, io) :
        /\ m_state' = [s EXCEPT ![m_tasks[next + 1]] = "Runnable"]
        /\ m_waiting_for' = w
  BY DEF S!schedule
<1>2. S!CanRun(m_tasks[next + 1], s, w, j, io)
  BY PickedCanRun
<1>3. QED
  BY <1>1, <1>2, RunningOneDecides

LEMMA ExitDecides ==
  ASSUME DOMAIN m_state = S!Tasks, S!Exit
  PROVE  Decided(m_state, m_waiting_for, U!is_finished(m_request))
<1>1. PICK next \in S!pick_next_task(m_tasks', m_running_task_index, m_state,
                                     m_waiting_for, jiffies, U!is_finished(m_request)) :
        m_state' = [m_state EXCEPT ![m_tasks'[next + 1]] = "Runnable"]
  BY DEF S!Exit
<1>2. m_waiting_for' = m_waiting_for
  BY DEF S!Exit
<1>3. S!CanRun(m_tasks'[next + 1], m_state, m_waiting_for, jiffies,
               U!is_finished(m_request))
  BY PickedCanRun
<1>4. QED
  BY <1>1, <1>2, <1>3, RunningOneDecides
-----------------------------------------------------------------------------
(***************************************************************************)
(* The invariant of the composition.                                       *)
(***************************************************************************)
KInv == S!SchedulerInv /\ U!UartInv /\ CallsFollowTasks

LEMMA IoTasksAreTasks == UartTasks \subseteq S!UserTasks /\ S!UserTasks \subseteq S!Tasks
BY KernelAssumption DEF S!SchedulerAssumption, S!UserTasks

\* The task that runs is not waiting.
LEMMA RunningDoesNotWait ==
  ASSUME KInv, NEW t \in S!Tasks, Runs(t)
  PROVE  m_state[t] = "Runnable"
BY DEF KInv, S!SchedulerInv, S!RunningTaskIsRunnable, Runs

\* A finished request is out of the handler's reach, and the handler does not touch the
\* state of a call.
LEMMA HandlerLeavesCalls ==
  ASSUME KInv, U!handle_irq
  PROVE  /\ ~U!is_finished(m_request)
         /\ m_request'.m_buf = m_request.m_buf
         /\ stage' = stage
<1>1. stage' = stage /\ U!uart_pending
  BY DEF U!handle_irq
<1>2. ~U!is_finished(m_request)
  BY <1>1 DEF KInv, U!UartInv, U!MaskFollowsRequest, U!uart_pending
<1>3. m_request'.m_buf = m_request.m_buf
  BY DEF KInv, U!UartInv, U!TypeOK, U!UARTRequest, U!handle_irq, U!try_read, U!try_write
<1>4. QED
  BY <1>1, <1>2, <1>3
-----------------------------------------------------------------------------
(***************************************************************************)
(* Every step of the kernel is one of the driver, or none.                 *)
(***************************************************************************)
LEMMA UartStep ==
  ASSUME KInv, [Next]_vars
  PROVE  [U!Next]_(U!vars)
<1>1. CASE UNCHANGED vars
  BY <1>1 DEF vars, uartVars, U!vars
<1>2. CASE Start
  BY <1>2 DEF Start, uartVars, U!vars
<1>3. ASSUME NEW t \in S!UserTasks, TaskStep(t)
      PROVE  [U!Next]_(U!vars)
  <2>1. CASE Yield(t)
    BY <2>1 DEF Yield, uartVars, U!vars
  <2>2. CASE \E secs \in SleepSecs : Sleep(t, secs)
    BY <2>2 DEF Sleep, uartVars, U!vars
  <2>3. CASE Exit(t) \/ Reject(t)
    BY <2>3 DEF Exit, Reject, U!Next
  <2>4. CASE t \in UartTasks /\ UartCall(t)
    BY <2>4 DEF UartCall, U!Next, U!CallerStep
  <2>5. CASE t \in UartTasks /\ UartWait(t)
    BY <2>5 DEF UartWait, U!Next, U!CallerStep
  <2>6. CASE t \in UartTasks /\ UartResume(t)
    <3>1. m_state[t] = "Runnable"
      BY <2>6, IoTasksAreTasks, RunningDoesNotWait DEF UartResume
    <3>2. stage[t] = "waiting"
      BY <2>6 DEF UartResume, U!GoOn, U!At
    <3>3. U!is_finished(m_request)
      BY <2>6, <3>1, <3>2 DEF KInv, CallsFollowTasks, CallFollowsTask
    <3>4. QED
      BY <2>6, <3>3 DEF UartResume, U!Next, U!Wake
  <2>7. QED
    BY <1>3, <2>1, <2>2, <2>3, <2>4, <2>5, <2>6 DEF TaskStep
<1>4. ASSUME NEW ticks \in TickSizes, TimerIrq(ticks)
      PROVE  [U!Next]_(U!vars)
  BY <1>4 DEF TimerIrq, ServeUart, uartVars, U!vars, U!Next
<1>5. CASE UartIrq \/ Device
  BY <1>5 DEF UartIrq, Device, U!Next
<1>6. QED
  BY <1>1, <1>2, <1>3, <1>4, <1>5 DEF Next

(***************************************************************************)
(* Every step of the kernel is one of the scheduler, or none.              *)
(***************************************************************************)
\* What leaves the scheduler's variables and the request alone is no step of it.
LEMMA NoStep ==
  ASSUME UNCHANGED schedVars, U!is_finished(m_request)' = U!is_finished(m_request)
  PROVE  [S!Next]_(S!vars)
BY DEF schedVars, S!vars

LEMMA CallIsStep ==
  ASSUME U!NoEmptyRequest, KInv, NEW t \in UartTasks, UartCall(t)
  PROVE  [S!Next]_(S!vars)
<1>1. UNCHANGED schedVars /\ Runs(t)
  BY DEF UartCall
<1>2. CASE m_request' = m_request
  BY <1>1, <1>2, NoStep DEF U!is_finished
<1>3. ASSUME NEW size \in RequestSizes, NEW isWrite \in BOOLEAN, U!Call(t, size, isWrite),
             m_request' # m_request
      PROVE  [S!Next]_(S!vars)
  <2>1. m_request'.m_size = 0 /\ m_request'.m_capacity = size
    BY <1>3 DEF U!Call
  <2>2. size # 0
    BY <1>3 DEF U!NoEmptyRequest
  <2>3. U!is_finished(m_request)' = FALSE
    BY <2>1, <2>2 DEF U!is_finished
  <2>4. S!InSyscall /\ S!Running \in UartTasks
    BY <1>1, IoTasksAreTasks DEF S!InSyscall, Runs
  <2>5. UNCHANGED S!schedVars
    BY <1>1 DEF schedVars, S!schedVars
  <2>6. S!IoStep
    BY <2>3, <2>4, <2>5 DEF S!IoStep
  <2>7. QED
    BY <2>6 DEF S!Next
<1>4. CASE U!enable_irq(t) \/ U!TestFinished(t) \/ U!Return(t)
  BY <1>4, <1>2 DEF U!enable_irq, U!TestFinished, U!Return
<1>5. QED
  BY <1>2, <1>3, <1>4 DEF UartCall

LEMMA IrqIsStep ==
  ASSUME KInv, UartIrq
  PROVE  [S!Next]_(S!vars)
<1>1. UNCHANGED schedVars /\ started /\ U!handle_irq
  BY DEF UartIrq
<1>2. U!is_finished(m_request) = FALSE
  BY <1>1, HandlerLeavesCalls
<1>3. CASE U!is_finished(m_request)' = FALSE
  BY <1>1, <1>2, <1>3, NoStep
<1>4. CASE U!is_finished(m_request)' = TRUE
  <2>1. UNCHANGED S!schedVars
    BY <1>1 DEF schedVars, S!schedVars
  <2>2. S!IoStep
    BY <1>1, <1>2, <1>4, <2>1 DEF S!IoStep
  <2>3. QED
    BY <2>2 DEF S!Next
<1>5. QED
  BY <1>3, <1>4 DEF U!is_finished

LEMMA SchedulerStep ==
  ASSUME U!NoEmptyRequest, KInv, [Next]_vars
  PROVE  [S!Next]_(S!vars)
<1>1. CASE UNCHANGED vars
  <2>1. UNCHANGED schedVars /\ m_request' = m_request
    BY <1>1 DEF vars, uartVars
  <2>2. QED
    BY <2>1, NoStep DEF U!is_finished
<1>2. CASE Start
  BY <1>2 DEF Start, S!Next, S!Decision
<1>3. ASSUME NEW t \in S!UserTasks, TaskStep(t)
      PROVE  [S!Next]_(S!vars)
  <2>1. CASE Yield(t) \/ Exit(t)
    BY <2>1 DEF Yield, Exit, S!Next, S!Decision
  <2>2. CASE \E secs \in SleepSecs : Sleep(t, secs)
    BY <2>2 DEF Sleep, S!Next, S!Decision
  <2>3. CASE Reject(t)
    <3>1. UNCHANGED schedVars /\ m_request' = m_request
      BY <2>3 DEF Reject, U!print
    <3>2. QED
      BY <3>1, NoStep DEF U!is_finished
  <2>4. CASE t \in UartTasks /\ UartCall(t)
    BY <2>4, CallIsStep
  <2>5. CASE UartWait(t)
    BY <2>5 DEF UartWait, S!Next, S!Decision
  <2>6. CASE UartResume(t)
    <3>1. UNCHANGED schedVars /\ m_request' = m_request
      BY <2>6 DEF UartResume, U!GoOn
    <3>2. QED
      BY <3>1, NoStep DEF U!is_finished
  <2>7. QED
    BY <1>3, <2>1, <2>2, <2>3, <2>4, <2>5, <2>6 DEF TaskStep
<1>4. ASSUME NEW ticks \in TickSizes, TimerIrq(ticks)
      PROVE  [S!Next]_(S!vars)
  BY <1>4 DEF TimerIrq, S!Next, S!Decision
<1>5. CASE UartIrq
  BY <1>5, IrqIsStep
<1>6. CASE Device
  <2>1. UNCHANGED schedVars /\ m_request' = m_request
    BY <1>6 DEF Device, U!Device, U!Drain, U!Arrive
  <2>2. QED
    BY <2>1, NoStep DEF U!is_finished
<1>7. QED
  BY <1>1, <1>2, <1>3, <1>4, <1>5, <1>6 DEF Next
-----------------------------------------------------------------------------
(***************************************************************************)
(* A call and its task agree, whatever step is taken.                      *)
(***************************************************************************)
\* A decision that leaves the calls alone and is taken with the states as they are.
LEMMA DecisionKeepsCalls ==
  ASSUME KInv, Decided(m_state, m_waiting_for, U!is_finished(m_request)'),
         stage' = stage, m_request'.m_buf = m_request.m_buf, started,
         started' = started,
         U!is_finished(m_request) => U!is_finished(m_request)'
  PROVE  CallsFollowTasks'
<1>1. SUFFICES ASSUME NEW t \in UartTasks
               PROVE  CallFollowsTask(t)'
  BY DEF CallsFollowTasks
<1>2. CallFollowsTask(t) /\ t \in S!Tasks
  BY IoTasksAreTasks DEF KInv, CallsFollowTasks
<1>3. QED
  BY <1>2 DEF CallFollowsTask, Decided

\* A step that is not the scheduler's.
LEMMA IdleKeepsCalls ==
  ASSUME KInv, UNCHANGED schedVars, stage' = stage, m_request'.m_buf = m_request.m_buf,
         U!is_finished(m_request) => U!is_finished(m_request)'
  PROVE  CallsFollowTasks'
<1>1. SUFFICES ASSUME NEW t \in UartTasks
               PROVE  CallFollowsTask(t)'
  BY DEF CallsFollowTasks
<1>2. CallFollowsTask(t)
  BY DEF KInv, CallsFollowTasks
<1>3. QED
  BY <1>2 DEF CallFollowsTask, schedVars

LEMMA StatesOfTasks ==
  ASSUME KInv
  PROVE  DOMAIN m_state = S!Tasks /\ DOMAIN m_waiting_for = S!Tasks
BY DEF KInv, S!SchedulerInv, S!TypeOK

LEMMA StartKeepsCalls ==
  ASSUME KInv, Start
  PROVE  CallsFollowTasks'
<1>1. SUFFICES ASSUME NEW t \in UartTasks
               PROVE  CallFollowsTask(t)'
  BY DEF CallsFollowTasks
<1>2. CallFollowsTask(t) /\ ~started
  BY DEF KInv, CallsFollowTasks, Start, S!start_scheduler
<1>3. stage'[t] = "user" /\ (m_state'[t] = "Waiting" => m_state[t] = "Waiting")
  BY <1>2, StatesOfTasks, IoTasksAreTasks
  DEF Start, S!start_scheduler, uartVars, CallFollowsTask
<1>4. m_waiting_for' = m_waiting_for /\ stage' = stage
  BY DEF Start, S!start_scheduler, uartVars
<1>5. QED
  BY <1>2, <1>3, <1>4 DEF CallFollowsTask

LEMMA SleepKeepsCalls ==
  ASSUME KInv, NEW t \in S!UserTasks, NEW secs \in SleepSecs, Sleep(t, secs)
  PROVE  CallsFollowTasks'
<1> DEFINE s == [m_state EXCEPT ![t] = "Waiting"]
           w == [m_waiting_for EXCEPT ![t] = S!SleepWaitable(secs)]
<1>1. /\ stage' = stage /\ m_request' = m_request
      /\ started /\ started' = started
      /\ t \in UartTasks => stage[t] = "user"
      /\ S!schedule(s, w, jiffies, U!is_finished(m_request))
  BY DEF Sleep, InUser, Runs, uartVars, S!Sleep, S!reschedule_while_waiting_for, S!schedule
<1>2. DOMAIN s = S!Tasks
  BY StatesOfTasks
<1>3. Decided(s, w, U!is_finished(m_request))
  <2> HIDE DEF s, w
  <2>1. QED
    BY <1>1, <1>2, ScheduleDecides
<1>4. S!SleepWaitable(secs).kind = "sleep"
  BY DEF S!SleepWaitable
<1>5. SUFFICES ASSUME NEW u \in UartTasks
               PROVE  CallFollowsTask(u)'
  BY DEF CallsFollowTasks
<1>6. CallFollowsTask(u) /\ u \in S!Tasks
  BY IoTasksAreTasks DEF KInv, CallsFollowTasks
<1>7. CASE u = t
  <2>1. w[u].kind = "sleep" /\ stage[u] = "user"
    BY <1>1, <1>4, <1>6, <1>7, StatesOfTasks
  <2>2. m_waiting_for' = w
    BY <1>3 DEF Decided
  <2>3. QED
    BY <1>1, <2>1, <2>2 DEF CallFollowsTask
<1>8. CASE u # t
  <2>1. s[u] = m_state[u] /\ w[u] = m_waiting_for[u]
    BY <1>6, <1>8, StatesOfTasks
  <2>2. QED
    BY <1>1, <1>3, <1>6, <2>1 DEF CallFollowsTask, Decided, U!is_finished
<1>9. QED
  BY <1>7, <1>8

LEMMA CallKeepsCalls ==
  ASSUME U!OneCaller, KInv, NEW t \in UartTasks, UartCall(t) \/ UartResume(t)
  PROVE  CallsFollowTasks'
<1>1. UNCHANGED schedVars /\ Runs(t)
  BY DEF UartCall, UartResume
<1>2. SUFFICES CallFollowsTask(t)'
  BY DEF CallsFollowTasks, U!OneCaller
<1>3. CallFollowsTask(t) /\ t \in S!Tasks /\ stage \in [UartTasks -> U!Stage]
  BY IoTasksAreTasks DEF KInv, CallsFollowTasks, U!UartInv, U!TypeOK
<1>4. m_state'[t] = "Runnable" /\ started'
  BY <1>1, <1>3, RunningDoesNotWait DEF schedVars, Runs
<1>5. /\ stage'[t] # "waiting"
      /\ stage'[t] # "user" => m_request'.m_buf = t
  <2>1. CASE \E size \in RequestSizes, isWrite \in BOOLEAN : U!Call(t, size, isWrite)
    BY <2>1, <1>3 DEF U!Call, U!At, CallFollowsTask
  <2>2. CASE U!enable_irq(t) \/ U!TestFinished(t) \/ U!Return(t)
    BY <2>2, <1>3
    DEF U!enable_irq, U!TestFinished, U!Return, U!At, CallFollowsTask
  <2>3. CASE UartResume(t)
    BY <2>3, <1>3 DEF UartResume, U!GoOn, U!At, CallFollowsTask
  <2>4. QED
    BY <2>1, <2>2, <2>3 DEF UartCall
<1>6. QED
  BY <1>4, <1>5 DEF CallFollowsTask

LEMMA WaitKeepsCalls ==
  ASSUME U!OneCaller, KInv, NEW t \in UartTasks, UartWait(t)
  PROVE  CallsFollowTasks'
<1> DEFINE s == [m_state EXCEPT ![t] = "Waiting"]
           w == [m_waiting_for EXCEPT ![t] = S!IoWaitable]
<1>1. /\ U!Wait(t) /\ started /\ started' = started
      /\ S!schedule(s, w, jiffies, U!is_finished(m_request))
  BY DEF UartWait, Runs, S!WaitForIo, S!reschedule_while_waiting_for, S!schedule
<1>2. DOMAIN s = S!Tasks
  BY StatesOfTasks
<1>3. Decided(s, w, U!is_finished(m_request))
  <2> HIDE DEF s, w
  <2>1. QED
    BY <1>1, <1>2, ScheduleDecides
<1>4. SUFFICES CallFollowsTask(t)'
  BY DEF CallsFollowTasks, U!OneCaller
<1>5. CallFollowsTask(t) /\ t \in S!Tasks /\ stage \in [UartTasks -> U!Stage]
  BY IoTasksAreTasks DEF KInv, CallsFollowTasks, U!UartInv, U!TypeOK
<1>6. stage'[t] = "waiting" /\ stage[t] = "unfinished" /\ m_request' = m_request
  BY <1>1, <1>5 DEF U!Wait, U!At
<1>7. s[t] = "Waiting" /\ w[t].kind = "io"
  BY <1>5, StatesOfTasks DEF S!IoWaitable
<1>8. QED
  BY <1>1, <1>3, <1>5, <1>6, <1>7 DEF CallFollowsTask, Decided, U!is_finished

LEMMA ServeUartKeepsCalls ==
  ASSUME KInv, ServeUart
  PROVE  /\ stage' = stage /\ m_request'.m_buf = m_request.m_buf
         /\ U!is_finished(m_request) => U!is_finished(m_request)'
<1>1. CASE U!handle_irq
  BY <1>1, HandlerLeavesCalls
<1>2. CASE UNCHANGED uartVars
  BY <1>2 DEF uartVars, U!is_finished
<1>3. QED
  BY <1>1, <1>2 DEF ServeUart

LEMMA CallsFollowTasksPreserved ==
  ASSUME U!OneCaller, KInv, [Next]_vars
  PROVE  CallsFollowTasks'
<1>1. CASE UNCHANGED vars
  <2>1. UNCHANGED schedVars /\ stage' = stage /\ m_request' = m_request
    BY <1>1 DEF vars, uartVars
  <2>2. QED
    BY <2>1, IdleKeepsCalls DEF U!is_finished
<1>2. CASE Start
  BY <1>2, StartKeepsCalls
<1>3. ASSUME NEW t \in S!UserTasks, TaskStep(t)
      PROVE  CallsFollowTasks'
  <2>1. CASE Yield(t)
    <3>1. /\ UNCHANGED uartVars /\ started /\ started' = started
          /\ S!schedule(m_state, m_waiting_for, jiffies, U!is_finished(m_request))
      BY <2>1 DEF Yield, InUser, Runs, S!Yield, S!schedule
    <3>2. stage' = stage /\ m_request' = m_request
      BY <3>1 DEF uartVars
    <3>3. Decided(m_state, m_waiting_for, U!is_finished(m_request)')
      BY <3>1, <3>2, StatesOfTasks, ScheduleDecides DEF U!is_finished
    <3>4. QED
      BY <3>1, <3>2, <3>3, DecisionKeepsCalls DEF U!is_finished
  <2>2. CASE \E secs \in SleepSecs : Sleep(t, secs)
    BY <2>2, SleepKeepsCalls
  <2>3. CASE Exit(t)
    <3>1. /\ started /\ started' = started
          /\ stage' = stage /\ m_request' = m_request /\ S!Exit
      BY <2>3 DEF Exit, InUser, Runs, S!Exit, U!print
    <3>2. Decided(m_state, m_waiting_for, U!is_finished(m_request)')
      BY <3>1, StatesOfTasks, ExitDecides DEF U!is_finished
    <3>3. QED
      BY <3>1, <3>2, DecisionKeepsCalls DEF U!is_finished
  <2>4. CASE Reject(t)
    <3>1. UNCHANGED schedVars /\ stage' = stage /\ m_request' = m_request
      BY <2>4 DEF Reject, U!print
    <3>2. QED
      BY <3>1, IdleKeepsCalls DEF U!is_finished
  <2>5. CASE t \in UartTasks /\ (UartCall(t) \/ UartResume(t))
    BY <2>5, CallKeepsCalls
  <2>6. CASE t \in UartTasks /\ UartWait(t)
    BY <2>6, WaitKeepsCalls
  <2>7. QED
    BY <1>3, <2>1, <2>2, <2>3, <2>4, <2>5, <2>6 DEF TaskStep
<1>4. ASSUME NEW ticks \in TickSizes, TimerIrq(ticks)
      PROVE  CallsFollowTasks'
  <2>1. /\ ServeUart /\ started /\ started' = started
        /\ S!schedule(m_state, m_waiting_for, (jiffies + ticks) % JiffiesModulus,
                      U!is_finished(m_request)')
    BY <1>4 DEF TimerIrq, S!TimerInterrupt, S!schedule
  <2>2. Decided(m_state, m_waiting_for, U!is_finished(m_request)')
    BY <2>1, StatesOfTasks, ScheduleDecides
  <2>3. QED
    BY <2>1, <2>2, ServeUartKeepsCalls, DecisionKeepsCalls
<1>5. CASE UartIrq
  <2>1. UNCHANGED schedVars /\ U!handle_irq
    BY <1>5 DEF UartIrq
  <2>2. QED
    BY <2>1, HandlerLeavesCalls, IdleKeepsCalls
<1>6. CASE Device
  <2>1. UNCHANGED schedVars /\ stage' = stage /\ m_request' = m_request
    BY <1>6 DEF Device, U!Device, U!Drain, U!Arrive
  <2>2. QED
    BY <2>1, IdleKeepsCalls DEF U!is_finished
<1>7. QED
  BY <1>1, <1>2, <1>3, <1>4, <1>5, <1>6 DEF Next
-----------------------------------------------------------------------------
(***************************************************************************)
(* The theorems.                                                           *)
(***************************************************************************)
LEMMA InitEstablishes ==
  ASSUME Init
  PROVE  KInv
<1>1. S!SchedulerInv
  BY Assumptions, SameSchedulerInv, SameSchedulerInit, SP!InitEstablishes DEF Init
<1>2. U!UartInv
  BY Assumptions, SameUartInv, SameUartInit, UP!InitEstablishes DEF Init
<1>3. CallsFollowTasks
  <2>1. SUFFICES ASSUME NEW t \in UartTasks
                 PROVE  CallFollowsTask(t)
    BY DEF CallsFollowTasks
  <2>2. stage[t] = "user" /\ m_state[t] = "New"
    BY IoTasksAreTasks DEF Init, U!Init, S!Init
  <2>3. QED
    BY <2>2 DEF CallFollowsTask
<1>4. QED
  BY <1>1, <1>2, <1>3 DEF KInv

LEMMA NextPreserves ==
  ASSUME U!OneCaller, U!NoEmptyRequest, KInv, [Next]_vars
  PROVE  KInv'
<1>1. U!UartInv'
  BY UartStep, UartPreserved DEF KInv
<1>2. S!SchedulerInv'
  BY SchedulerStep, SchedulerPreserved DEF KInv
<1>3. CallsFollowTasks'
  BY CallsFollowTasksPreserved
<1>4. QED
  BY <1>1, <1>2, <1>3 DEF KInv

LEMMA SpecKeepsInvariant ==
  ASSUME U!OneCaller, U!NoEmptyRequest
  PROVE  Spec => []KInv
<1>1. Init => KInv
  BY InitEstablishes
<1>2. KInv /\ [Next]_vars => KInv'
  BY NextPreserves
<1>3. QED
  BY <1>1, <1>2, PTL DEF Spec

\* The types, the agreement of calls and tasks, and no panic: the PANIC_IFs of
\* UARTFile::read and UARTFile::write do not fire when reschedule_while_waiting_for is
\* what lets a call go on, for any number of tasks.
THEOREM KernelInvariant ==
  ASSUME U!OneCaller, U!NoEmptyRequest
  PROVE  Spec => []KernelInv
<1>1. KInv => KernelInv
  BY DEF KInv, KernelInv, S!SchedulerInv, U!UartInv
<1>2. QED
  BY <1>1, SpecKeepsInvariant, PTL

\* A task that waits for the UART is inside its call, and the interrupt that its request
\* needs is let through.
THEOREM WaitersAreServed ==
  ASSUME U!OneCaller, U!NoEmptyRequest
  PROVE  Spec => []WaiterIsServed
<1>1. KInv => WaiterIsServed
  <2>1. SUFFICES ASSUME KInv, NEW t \in UartTasks,
                        m_state[t] = "Waiting", m_waiting_for[t].kind = "io"
                 PROVE  /\ stage[t] = "waiting"
                        /\ ~U!is_finished(m_request) =>
                             m_request.m_buf = t /\ imsc = {U!Direction(m_request)}
    BY DEF WaiterIsServed
  <2>2. stage[t] = "waiting" /\ m_request.m_buf = t
    BY <2>1 DEF KInv, CallsFollowTasks, CallFollowsTask
  <2>3. ~U!is_finished(m_request) => imsc = {U!Direction(m_request)}
    BY <2>1, <2>2 DEF KInv, U!UartInv, U!CallerInv
  <2>4. QED
    BY <2>2, <2>3
<1>2. QED
  BY <1>1, SpecKeepsInvariant, PTL

\* Seen from the scheduler, the UART's calls and interrupts are steps of one Waitable:
\* the composition implements module Scheduler.
THEOREM KernelImplementsScheduler ==
  ASSUME U!OneCaller, U!NoEmptyRequest
  PROVE  Spec => ImplementsScheduler
<1>1. Init => S!Init
  BY DEF Init
<1>2. KInv /\ [Next]_vars => [S!Next]_(S!vars)
  BY SchedulerStep
<1>3. QED
  BY <1>1, <1>2, SpecKeepsInvariant, PTL DEF Spec, ImplementsScheduler, S!Spec

\* Seen from the driver, a call goes on only when its request is finished, although the
\* scheduler never tells it so: the composition implements module Uart.
THEOREM KernelImplementsUart ==
  ASSUME U!OneCaller, U!NoEmptyRequest
  PROVE  Spec => ImplementsUart
<1>1. Init => U!Init
  BY DEF Init
<1>2. KInv /\ [Next]_vars => [U!Next]_(U!vars)
  BY UartStep
<1>3. QED
  BY <1>1, <1>2, SpecKeepsInvariant, PTL DEF Spec, ImplementsUart, U!Spec
=============================================================================
