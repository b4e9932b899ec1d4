--------------------------- MODULE SchedulerHistory --------------------------
(***************************************************************************)
(* Module Scheduler with two history variables and the properties that     *)
(* need them.  They observe the steps of the scheduler and restrict none.  *)
(***************************************************************************)
EXTENDS Scheduler

VARIABLES
  passed,  \* decisions in a row that passed over a task that could run
  left     \* jiffies for which a sleeping task has still to sleep

allVars == <<vars, passed, left>>

MCInit == Init /\ passed = [t \in Tasks |-> 0] /\ left = [t \in Tasks |-> 0]

\* How many tasks have exited.
Exits == Len(InitialTasks) - Len(m_tasks)

CouldRun(t) == CanRun(t, m_state, m_waiting_for, jiffies, ioFinished)

ObservePassed ==
  passed' = [t \in Tasks |->
    IF Running' # t /\ t \in Live' /\ CouldRun(t)' THEN passed[t] + 1 ELSE 0]

\* Time that passed since the last step.
Elapsed == (jiffies' - jiffies) % JiffiesModulus

ObserveTime ==
  left' = [t \in Tasks |-> IF left[t] > Elapsed THEN left[t] - Elapsed ELSE 0]

\* A deadline beyond the range of jiffies wraps around and lies in the past, so that the
\* sleep is over at once: it counts as no sleep here.
ObserveSleep(secs) ==
  left' = [left EXCEPT ![Running] =
    IF jiffies + secs * SysHz < JiffiesModulus THEN secs * SysHz ELSE 0]

MCNext ==
  \/ /\ \/ start_scheduler /\ ObserveTime
        \/ (\E ticks \in TickSizes : TimerInterrupt(ticks)) /\ ObserveTime
        \/ Yield /\ ObserveTime
        \/ \E secs \in SleepSecs : Sleep(secs) /\ ObserveSleep(secs)
        \/ WaitForIo /\ ObserveTime
        \/ Exit /\ ObserveTime
     /\ ObservePassed
  \/ IoStep /\ UNCHANGED <<passed, left>>

MCSpec == MCInit /\ [][MCNext]_allVars
-----------------------------------------------------------------------------
\* Round robin starves nobody: a task that can run is passed over at most once for
\* every other task that was created, and by all but one of them once more for every
\* task that has exited (pick_next_task steps over the successor of a task that exits,
\* which then waits for a whole round).
NoStarvation ==
  \A t \in Live :
    passed[t] <= Len(InitialTasks) - 1 + Exits * (Len(InitialTasks) - 2)

\* A sleeping task gets the CPU back only when all of its time has passed, however
\* often it is polled and whatever the other tasks do.
SleepIsNotCutShort ==
  [][\A t \in Live :
       /\ m_state[t] = "Waiting" /\ m_waiting_for[t].kind = "sleep"
       /\ m_state'[t] = "Runnable"
       => left'[t] = 0]_allVars
=============================================================================
