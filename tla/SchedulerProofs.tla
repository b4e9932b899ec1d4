--------------------------- MODULE SchedulerProofs ---------------------------
(***************************************************************************)
(* Proofs about module Scheduler, for any number of tasks, any frequency   *)
(* and any width of the jiffies counter.                                   *)
(***************************************************************************)
EXTENDS SchedulerHistory, TLAPS, WellFoundedInduction

\* What the proofs need to know of the constants.
LEMMA Constants ==
  /\ SpinTask \in Tasks
  /\ UserTasks \subseteq Tasks
  /\ Len(InitialTasks) \in Nat
  /\ DOMAIN InitialTasks = 1 .. Len(InitialTasks)
BY SchedulerAssumption DEF Tasks, UserTasks

\* Reduction modulo the width of the counter yields a value of the counter.
LEMMA ModInJiffies ==
  ASSUME NEW n \in Int
  PROVE  n % JiffiesModulus \in Jiffies
BY SchedulerAssumption DEF Jiffies

\* pick_next_task yields indices of the vector.
LEMMA PickInRange ==
  ASSUME NEW ts \in Seq(Tasks), Len(ts) > 0, NEW i \in Nat, NEW s, NEW w,
         NEW j, NEW io, NEW next \in pick_next_task(ts, i, s, w, j, io)
  PROVE  /\ next \in 0 .. Len(ts) - 1
         /\ next + 1 \in DOMAIN ts
         /\ ts[next + 1] \in Tasks
         /\ CanRun(ts[next + 1], s, w, j, io)
<1> DEFINE n == Len(ts)
<1>1. n \in Nat \ {0}
  OBVIOUS
<1>2. PICK k \in 0 .. n - 1 : /\ next = After(ts, i, k)
                              /\ CanRun(ts[After(ts, i, k) + 1], s, w, j, io)
  BY DEF pick_next_task
<1>3. NextIndex(ts, i) \in Nat
  BY DEF NextIndex
<1>4. next \in 0 .. n - 1
  BY <1>1, <1>2, <1>3 DEF After
<1>5. next + 1 \in DOMAIN ts
  BY <1>1, <1>4
<1>6. QED
  BY <1>2, <1>4, <1>5

\* The vector without one element.
LEMMA RemoveType ==
  ASSUME NEW ts \in Seq(Tasks), NEW i \in 0 .. Len(ts) - 1
  PROVE  /\ Remove(ts, i) \in Seq(Tasks)
         /\ Len(Remove(ts, i)) = Len(ts) - 1
         /\ DOMAIN Remove(ts, i) = 1 .. Len(ts) - 1
         /\ \A k \in 1 .. Len(ts) - 1 :
              Remove(ts, i)[k] = IF k <= i THEN ts[k] ELSE ts[k + 1]
<1>1. Len(ts) - 1 \in Nat /\ DOMAIN ts = 1 .. Len(ts)
  OBVIOUS
<1>2. \A k \in 1 .. Len(ts) - 1 : ts[k] \in Tasks /\ ts[k + 1] \in Tasks
  BY <1>1
<1>3. QED
  BY <1>1, <1>2 DEF Remove
-----------------------------------------------------------------------------
(***************************************************************************)
(* The inductive invariant.                                                *)
(***************************************************************************)

\* A scheduling decision preserves the invariant, provided that the caller only
\* changed the state of the running user task and only to "Waiting".
LEMMA schedulePreserves ==
  ASSUME SchedulerInv, started,
         NEW s \in [Tasks -> State], NEW w \in [Tasks -> Waitable],
         NEW j \in Jiffies, NEW io,
         s[SpinTask] # "Waiting",
         schedule(s, w, j, io), ioFinished' \in BOOLEAN
  PROVE  SchedulerInv'
<1> USE DEF SchedulerInv
<1>1. /\ m_tasks \in Seq(Tasks) /\ Len(m_tasks) > 0
      /\ m_running_task_index \in Nat
  BY DEF TypeOK, TasksWellFormed
<1>2. PICK next \in pick_next_task(m_tasks, m_running_task_index, s, w, j, io) :
        LET to == m_tasks[next + 1] IN
        /\ m_running_task_index' = next
        /\ m_state' = [s EXCEPT ![to] = "Runnable"]
        /\ m_waiting_for' = w
        /\ jiffies' = j
        /\ IF to = Running
           THEN UNCHANGED <<m_cpu_jiffies, m_jiffies_when_scheduled>>
           ELSE /\ m_cpu_jiffies' = [m_cpu_jiffies EXCEPT ![Running] =
                     (@ + j - m_jiffies_when_scheduled[Running]) % JiffiesModulus]
                /\ m_jiffies_when_scheduled' =
                     [m_jiffies_when_scheduled EXCEPT ![to] = j]
        /\ UNCHANGED <<m_tasks, started>>
  BY DEF schedule
<1>3. /\ next \in 0 .. Len(m_tasks) - 1 /\ next + 1 \in DOMAIN m_tasks
      /\ m_tasks[next + 1] \in Tasks
  BY <1>1, <1>2, PickInRange
<1>4. Running \in Tasks
  BY DEF TypeOK, Running
<1>5. Running' = m_tasks[next + 1]
  BY <1>2 DEF Running
<1>6. m_cpu_jiffies' \in [Tasks -> Jiffies]
  <2>1. m_cpu_jiffies[Running] + j - m_jiffies_when_scheduled[Running] \in Int
    BY <1>4, SchedulerAssumption DEF TypeOK, Jiffies
  <2>2. (m_cpu_jiffies[Running] + j - m_jiffies_when_scheduled[Running])
          % JiffiesModulus \in Jiffies
    BY <2>1, ModInJiffies
  <2>3. QED
    BY <1>2, <2>2 DEF TypeOK
<1>7. m_jiffies_when_scheduled' \in [Tasks -> Jiffies]
  BY <1>2, <1>3 DEF TypeOK
<1>8. TypeOK'
  BY <1>2, <1>3, <1>6, <1>7 DEF TypeOK, State
<1>9. TasksWellFormed'
  BY <1>2 DEF TasksWellFormed
<1>10. RunningTaskIsRunnable'
  BY <1>2, <1>3, <1>5 DEF RunningTaskIsRunnable
<1>11. m_state'[SpinTask] # "Waiting"
  BY <1>2, <1>3, Constants
<1>12. QED
  BY <1>8, <1>9, <1>10, <1>11

\* A task that exits leaves a vector as well formed as it was.
LEMMA ExitPreserves ==
  ASSUME SchedulerInv, Exit
  PROVE  SchedulerInv'
<1> USE DEF SchedulerInv
<1> DEFINE i == m_running_task_index
           n == Len(m_tasks)
<1>1. /\ m_tasks \in Seq(Tasks) /\ n \in Nat \ {0}
      /\ i \in 0 .. n - 1 /\ m_tasks' = Remove(m_tasks, i)
  BY DEF TypeOK, TasksWellFormed, Exit
<1>2. i + 1 # n
  BY DEF Exit, InSyscall, UserTasks, Running, TasksWellFormed
<1>3. /\ m_tasks' \in Seq(Tasks) /\ Len(m_tasks') = n - 1 /\ n - 1 > 0
      /\ DOMAIN m_tasks' = 1 .. n - 1
      /\ \A k \in 1 .. n - 1 :
           m_tasks'[k] = IF k <= i THEN m_tasks[k] ELSE m_tasks[k + 1]
  BY <1>1, <1>2, RemoveType
<1>4. PICK next \in pick_next_task(m_tasks', i, m_state, m_waiting_for, jiffies, ioFinished) :
        LET to == m_tasks'[next + 1] IN
        /\ m_running_task_index' = next
        /\ m_state' = [m_state EXCEPT ![to] = "Runnable"]
        /\ m_jiffies_when_scheduled' =
             [m_jiffies_when_scheduled EXCEPT ![to] = jiffies]
  BY DEF Exit
<1>5. /\ next \in 0 .. Len(m_tasks') - 1 /\ next + 1 \in DOMAIN m_tasks'
      /\ m_tasks'[next + 1] \in Tasks
  BY <1>1, <1>3, <1>4, PickInRange
<1>6. Running' = m_tasks'[next + 1]
  BY <1>4 DEF Running
<1>7. TypeOK'
  BY <1>3, <1>4, <1>5 DEF TypeOK, Exit, State
<1>8. TasksWellFormed'
  <2>1. ASSUME NEW a \in DOMAIN m_tasks', NEW b \in DOMAIN m_tasks',
               m_tasks'[a] = m_tasks'[b]
        PROVE  a = b
    <3> DEFINE up(k) == IF k <= i THEN k ELSE k + 1
    <3>1. /\ a \in 1 .. n - 1 /\ b \in 1 .. n - 1
          /\ up(a) \in DOMAIN m_tasks /\ up(b) \in DOMAIN m_tasks
      BY <1>1, <1>3
    <3>2. m_tasks[up(a)] = m_tasks[up(b)]
      BY <1>1, <1>3, <2>1, <3>1
    <3>3. up(a) = up(b)
      BY <3>1, <3>2 DEF TasksWellFormed
    <3>4. QED
      BY <1>1, <3>1, <3>3
  <2>2. m_tasks'[n - 1] = SpinTask
    <3>1. n - 1 \in 1 .. n - 1 /\ ~(n - 1 <= i)
      BY <1>1, <1>2, <1>3
    <3>2. m_tasks'[n - 1] = m_tasks[(n - 1) + 1]
      BY <1>3, <3>1
    <3>3. QED
      BY <1>1, <3>2 DEF TasksWellFormed
  <2>3. QED
    BY <1>3, <2>1, <2>2 DEF TasksWellFormed
<1>9. RunningTaskIsRunnable'
  BY <1>4, <1>5, <1>6 DEF RunningTaskIsRunnable, TypeOK
<1>10. m_state'[SpinTask] # "Waiting"
  BY <1>4, <1>5, Constants DEF TypeOK
<1>11. QED
  BY <1>7, <1>8, <1>9, <1>10

\* Every step preserves the invariant: one case per action.
LEMMA NextPreserves == SchedulerInv /\ [Next]_vars => SchedulerInv'
<1> SUFFICES ASSUME SchedulerInv, [Next]_vars
             PROVE  SchedulerInv'
  OBVIOUS
<1> DEFINE waiting == [m_state EXCEPT ![Running] = "Waiting"]
<1>1. Running \in Tasks /\ SpinTask \in Tasks
  BY Constants DEF SchedulerInv, TypeOK, Running
<1>2. /\ m_state \in [Tasks -> State] /\ waiting \in [Tasks -> State]
      /\ m_waiting_for \in [Tasks -> Waitable] /\ jiffies \in Jiffies
      /\ m_state[SpinTask] # "Waiting" /\ ioFinished \in BOOLEAN
  BY <1>1 DEF SchedulerInv, TypeOK, State
<1>3. CASE start_scheduler
  BY <1>1, <1>2, <1>3 DEF start_scheduler, SchedulerInv, TypeOK, TasksWellFormed,
                    RunningTaskIsRunnable, Running, State
<1>4. ASSUME NEW ticks \in TickSizes, TimerInterrupt(ticks)
      PROVE  SchedulerInv'
  <2>0. jiffies + ticks \in Int
    BY <1>2, SchedulerAssumption DEF Jiffies
  <2>1. (jiffies + ticks) % JiffiesModulus \in Jiffies
    BY <2>0, ModInJiffies
  <2>2. started /\ schedule(m_state, m_waiting_for, (jiffies + ticks) % JiffiesModulus,
                           ioFinished')
    BY <1>4 DEF TimerInterrupt
  <2>3. ioFinished' \in BOOLEAN
    BY <1>2, <1>4 DEF TimerInterrupt
  <2>4. QED
    BY <1>2, <2>1, <2>2, <2>3, schedulePreserves
<1>5. CASE Yield
  <2>1. /\ started /\ schedule(m_state, m_waiting_for, jiffies, ioFinished)
        /\ ioFinished' \in BOOLEAN
    BY <1>2, <1>5 DEF Yield, InSyscall
  <2>2. QED
    BY <1>2, <1>5, <2>1, schedulePreserves
<1>6. ASSUME NEW w \in Waitable, reschedule_while_waiting_for(w)
      PROVE  SchedulerInv'
  <2> DEFINE pointing == [m_waiting_for EXCEPT ![Running] = w]
  <2>1. /\ started /\ schedule(waiting, pointing, jiffies, ioFinished)
        /\ ioFinished' \in BOOLEAN
    BY <1>2, <1>6 DEF reschedule_while_waiting_for, InSyscall
  <2>2. waiting[SpinTask] # "Waiting"
    BY <1>1, <1>2, <1>6 DEF reschedule_while_waiting_for, InSyscall, UserTasks
  <2>3. pointing \in [Tasks -> Waitable]
    BY <1>1, <1>2
  <2> HIDE DEF waiting, pointing
  <2>4. QED
    BY <1>2, <1>6, <2>1, <2>2, <2>3, schedulePreserves
<1>7. ASSUME NEW secs \in SleepSecs, Sleep(secs)
      PROVE  SchedulerInv'
  <2>1. jiffies + secs * SysHz \in Int
    BY <1>2, SchedulerAssumption DEF Jiffies
  <2>2. SleepWaitable(secs) \in Waitable
    BY <2>1, ModInJiffies DEF SleepWaitable, Waitable
  <2>3. QED
    BY <1>6, <1>7, <2>2 DEF Sleep
<1>8. CASE WaitForIo
  <2>1. IoWaitable \in Waitable
    BY SchedulerAssumption DEF IoWaitable, Waitable, Jiffies
  <2>2. QED
    BY <1>6, <1>8, <2>1 DEF WaitForIo
<1>9. CASE Exit
  BY <1>9, ExitPreserves
<1>10. CASE IoStep
  BY <1>10 DEF IoStep, schedVars, SchedulerInv, TypeOK, TasksWellFormed,
               RunningTaskIsRunnable, Running
<1>11. CASE UNCHANGED vars
  BY <1>11 DEF vars, SchedulerInv, TypeOK, TasksWellFormed, RunningTaskIsRunnable,
               Running
<1>12. QED
  BY <1>3, <1>4, <1>5, <1>7, <1>8, <1>9, <1>10, <1>11 DEF Next, Decision

\* The invariant holds when start_scheduler() is about to run.
LEMMA InitEstablishes == Init => SchedulerInv
<1> SUFFICES ASSUME Init PROVE SchedulerInv
  OBVIOUS
<1>1. TypeOK
  <2>1. 0 \in Jiffies
    BY SchedulerAssumption DEF Jiffies
  <2>2. NoWaitable \in Waitable
    BY <2>1 DEF NoWaitable, Waitable
  <2>3. 0 \in 0 .. Len(InitialTasks) - 1
    BY Constants, SchedulerAssumption
  <2>4. QED
    BY <2>1, <2>2, <2>3, SchedulerAssumption DEF Init, TypeOK, State
<1>2. TasksWellFormed
  BY SchedulerAssumption DEF Init, TasksWellFormed
<1>3. RunningTaskIsRunnable /\ m_state[SpinTask] # "Waiting"
  BY Constants DEF Init, RunningTaskIsRunnable
<1>4. QED
  BY <1>1, <1>2, <1>3 DEF SchedulerInv

\* The inductive invariant holds in every reachable state: the index stays inside
\* the vector although tasks exit, the spin task stays in it and never waits, and
\* the running task is marked runnable.
THEOREM SchedulerInvariant == Spec => []SchedulerInv
<1>1. QED
  BY InitEstablishes, NextPreserves, PTL DEF Spec

\* Type correctness of the scheduler.
THEOREM TypeCorrect == Spec => []TypeOK
<1>1. SchedulerInv => TypeOK
  BY DEF SchedulerInv
<1>2. QED
  BY <1>1, SchedulerInvariant, PTL
-----------------------------------------------------------------------------
(***************************************************************************)
(* CPU time, in the arithmetic of an unsigned counter of any width.        *)
(***************************************************************************)

\* Quotient and remainder.
LEMMA DivMod ==
  ASSUME NEW n \in Int
  PROVE  /\ n \div JiffiesModulus \in Int
         /\ n = JiffiesModulus * (n \div JiffiesModulus) + (n % JiffiesModulus)
<1>1. JiffiesModulus \in Int /\ JiffiesModulus > 0
  BY SchedulerAssumption
<1>2. QED
  BY <1>1, Z3T(60)

\* The remainder is unique.
LEMMA ModUnique ==
  ASSUME NEW n \in Int, NEW q \in Int, NEW r \in 0 .. JiffiesModulus - 1,
         n = JiffiesModulus * q + r
  PROVE  n % JiffiesModulus = r
BY SchedulerAssumption

\* A reduction inside a sum makes no difference to the reduced sum.
LEMMA ModAdd ==
  ASSUME NEW a \in Int, NEW b \in Int
  PROVE  ((a % JiffiesModulus) + b) % JiffiesModulus = (a + b) % JiffiesModulus
<1> DEFINE M == JiffiesModulus
           c == a + b
           q == (c \div M) - (a \div M)
<1>1. /\ M \in Int /\ a \div M \in Int /\ c \div M \in Int /\ c \in Int
      /\ a = M * (a \div M) + (a % M)
      /\ c = M * (c \div M) + (c % M)
  BY SchedulerAssumption, DivMod
<1>2. a % M \in Int /\ c % M \in 0 .. M - 1
  BY SchedulerAssumption
<1>3. M * q = M * (c \div M) - M * (a \div M)
  BY <1>1
<1>4. (a % M) + b = M * q + (c % M)
  BY <1>1, <1>2, <1>3
<1>5. (a % M) + b \in Int /\ q \in Int
  BY <1>1, <1>2
<1> HIDE DEF q
<1>6. QED
  BY <1>2, <1>4, <1>5, ModUnique

\* A value of the counter is its own remainder.
LEMMA ModIdentity ==
  ASSUME NEW n \in Jiffies
  PROVE  n % JiffiesModulus = n
BY SchedulerAssumption DEF Jiffies

\* Being charged for the time up to j and reading the CPU time at j are the same.
LEMMA ChargeUpTo ==
  ASSUME NEW c \in Jiffies, NEW from \in Jiffies, NEW j \in Jiffies, NEW k \in Jiffies
  PROVE  (c + k - from) % JiffiesModulus
           = (((c + j - from) % JiffiesModulus) + (k - j)) % JiffiesModulus
<1>1. c + j - from \in Int /\ k - j \in Int
  BY SchedulerAssumption DEF Jiffies
<1>2. (c + j - from) + (k - j) = c + k - from
  BY SchedulerAssumption DEF Jiffies
<1>3. QED
  BY <1>1, <1>2, ModAdd

\* A task that starts at j has used nothing since.
LEMMA ChargeNothing ==
  ASSUME NEW c \in Jiffies, NEW j \in Jiffies
  PROVE  /\ (c + j - j) % JiffiesModulus = c
         /\ (c + 0) % JiffiesModulus = c
<1>1. c + j - j = c /\ c + 0 = c
  BY SchedulerAssumption DEF Jiffies
<1>2. QED
  BY <1>1, ModIdentity

\* Every scheduling decision charges the running task and nobody else.
LEMMA scheduleCharges ==
  ASSUME SchedulerInv, NEW s, NEW w, NEW j \in Jiffies, NEW io,
         schedule(s, w, j, io)
  PROVE  ChargesRunningTask
<1> SUFFICES ASSUME NEW t \in Live'
             PROVE  cputime(t)' = (cputime(t) + IF t = Running THEN jiffies' - jiffies ELSE 0)
                                    % JiffiesModulus
  BY DEF ChargesRunningTask
<1>1. /\ m_tasks \in Seq(Tasks) /\ Len(m_tasks) > 0
      /\ m_running_task_index \in Nat /\ Running \in Tasks /\ jiffies \in Jiffies
  BY DEF SchedulerInv, TypeOK, TasksWellFormed, Running
<1>2. PICK next \in pick_next_task(m_tasks, m_running_task_index, s, w, j, io) :
        LET to == m_tasks[next + 1] IN
        /\ m_running_task_index' = next
        /\ jiffies' = j
        /\ IF to = Running
           THEN UNCHANGED <<m_cpu_jiffies, m_jiffies_when_scheduled>>
           ELSE /\ m_cpu_jiffies' = [m_cpu_jiffies EXCEPT ![Running] =
                     (@ + j - m_jiffies_when_scheduled[Running]) % JiffiesModulus]
                /\ m_jiffies_when_scheduled' =
                     [m_jiffies_when_scheduled EXCEPT ![to] = j]
        /\ m_tasks' = m_tasks
  BY DEF schedule
<1> DEFINE to == m_tasks[next + 1]
           c == m_cpu_jiffies[t]
           from == m_jiffies_when_scheduled[t]
<1>3. Running' = to /\ to \in Tasks
  BY <1>1, <1>2, PickInRange DEF Running
<1>4. t \in Tasks
  BY <1>1, <1>2 DEF Live
<1>5. c \in Jiffies /\ from \in Jiffies
  BY <1>4 DEF SchedulerInv, TypeOK
<1>6. CASE t = Running
  <2>1. cputime(t)' = (c + j - from) % JiffiesModulus
    BY <1>2, <1>3, <1>4, <1>6 DEF cputime, SchedulerInv, TypeOK
  <2>2. cputime(t) = (c + jiffies - from) % JiffiesModulus
    BY <1>6 DEF cputime
  <2>3. QED
    BY <1>1, <1>2, <1>5, <1>6, <2>1, <2>2, ChargeUpTo
<1>7. CASE t # Running
  <2>1. cputime(t) = c
    BY <1>7 DEF cputime
  <2>2. cputime(t)' = c
    <3>1. CASE t = to
      <4>1. cputime(t)' = (c + j - j) % JiffiesModulus
        BY <1>2, <1>3, <1>4, <1>7, <3>1 DEF cputime, SchedulerInv, TypeOK
      <4>2. QED
        BY <1>5, <4>1, ChargeNothing
    <3>2. CASE t # to
      BY <1>2, <1>3, <1>4, <1>7, <3>2 DEF cputime, SchedulerInv, TypeOK
    <3>3. QED
      BY <3>1, <3>2
  <2>3. QED
    BY <1>1, <1>5, <1>7, <2>1, <2>2, ChargeNothing
<1>8. QED
  BY <1>6, <1>7

\* An exit charges nobody: the task that gets the CPU starts from now.
LEMMA ExitCharges ==
  ASSUME SchedulerInv, Exit
  PROVE  ChargesRunningTask
<1> SUFFICES ASSUME NEW t \in Live'
             PROVE  cputime(t)' = (cputime(t) + IF t = Running THEN jiffies' - jiffies ELSE 0)
                                    % JiffiesModulus
  BY DEF ChargesRunningTask
<1> DEFINE i == m_running_task_index
           n == Len(m_tasks)
           c == m_cpu_jiffies[t]
<1>1. /\ m_tasks \in Seq(Tasks) /\ n \in Nat \ {0} /\ jiffies \in Jiffies
      /\ i \in 0 .. n - 1 /\ m_tasks' = Remove(m_tasks, i)
  BY DEF SchedulerInv, TypeOK, TasksWellFormed, Exit
<1>2. i + 1 # n
  BY DEF Exit, InSyscall, UserTasks, Running, SchedulerInv, TasksWellFormed
<1>3. /\ m_tasks' \in Seq(Tasks) /\ Len(m_tasks') = n - 1 /\ n - 1 > 0
      /\ DOMAIN m_tasks' = 1 .. n - 1
      /\ \A k \in 1 .. n - 1 :
           m_tasks'[k] = IF k <= i THEN m_tasks[k] ELSE m_tasks[k + 1]
  BY <1>1, <1>2, RemoveType
<1>4. PICK next \in pick_next_task(m_tasks', i, m_state, m_waiting_for, jiffies, ioFinished) :
        /\ m_running_task_index' = next
        /\ m_jiffies_when_scheduled' =
             [m_jiffies_when_scheduled EXCEPT ![m_tasks'[next + 1]] = jiffies]
  BY DEF Exit
<1>5. m_cpu_jiffies' = m_cpu_jiffies /\ jiffies' = jiffies
  BY DEF Exit
<1>6. Running' = m_tasks'[next + 1] /\ Running' \in Tasks
  BY <1>1, <1>3, <1>4, PickInRange DEF Running
<1>7. t \in Tasks /\ t # Running
  <2>1. PICK k \in 1 .. n - 1 : t = m_tasks'[k]
    BY <1>3 DEF Live
  <2>2. PICK h \in 1 .. n : t = m_tasks[h] /\ h # i + 1
    BY <1>1, <1>3, <2>1
  <2>3. QED
    BY <1>1, <2>2 DEF Running, SchedulerInv, TasksWellFormed
<1>8. c \in Jiffies /\ cputime(t) = c
  BY <1>7 DEF SchedulerInv, TypeOK, cputime
<1>9. cputime(t)' = c
  <2>1. CASE t = Running'
    <3>1. cputime(t)' = (c + jiffies - jiffies) % JiffiesModulus
      BY <1>4, <1>5, <1>6, <2>1 DEF cputime, SchedulerInv, TypeOK
    <3>2. QED
      BY <1>1, <1>8, <3>1, ChargeNothing
  <2>2. CASE t # Running'
    BY <1>5, <2>2 DEF cputime
  <2>3. QED
    BY <2>1, <2>2
<1>10. QED
  BY <1>1, <1>7, <1>8, <1>9, ChargeNothing

\* Every step charges the running task and nobody else: one case per action.
LEMMA NextCharges == SchedulerInv /\ [Next]_vars => [ChargesRunningTask]_vars
<1> SUFFICES ASSUME SchedulerInv, Next
             PROVE  ChargesRunningTask
  BY DEF vars
<1>1. jiffies \in Jiffies
  BY DEF SchedulerInv, TypeOK
<1>2. CASE start_scheduler
  BY <1>2 DEF start_scheduler, ChargesRunningTask
<1>3. ASSUME NEW ticks \in TickSizes, TimerInterrupt(ticks)
      PROVE  ChargesRunningTask
  <2>1. jiffies + ticks \in Int
    BY <1>1, SchedulerAssumption DEF Jiffies
  <2>2. (jiffies + ticks) % JiffiesModulus \in Jiffies
    BY <2>1, ModInJiffies
  <2>3. QED
    BY <1>3, <2>2, scheduleCharges DEF TimerInterrupt
<1>4. CASE Yield
  BY <1>1, <1>4, scheduleCharges DEF Yield
<1>5. ASSUME NEW w, reschedule_while_waiting_for(w)
      PROVE  ChargesRunningTask
  BY <1>1, <1>5, scheduleCharges DEF reschedule_while_waiting_for
<1>6. ASSUME NEW secs \in SleepSecs, Sleep(secs)
      PROVE  ChargesRunningTask
  BY <1>5, <1>6 DEF Sleep
<1>7. CASE WaitForIo
  BY <1>5, <1>7 DEF WaitForIo
<1>8. CASE Exit
  BY <1>8, ExitCharges
<1>9. CASE IoStep
  <2> SUFFICES ASSUME NEW t \in Live'
               PROVE  cputime(t)' = (cputime(t) + IF t = Running THEN jiffies' - jiffies
                                                  ELSE 0) % JiffiesModulus
    BY DEF ChargesRunningTask
  <2>1. t \in Tasks /\ Running \in Tasks
    BY <1>9 DEF IoStep, schedVars, Live, Running, SchedulerInv, TypeOK
  <2>2. cputime(t)' = cputime(t) /\ jiffies' - jiffies = 0
    BY <1>1, <1>9, SchedulerAssumption DEF IoStep, schedVars, cputime, Running, Jiffies
  <2>3. m_cpu_jiffies[t] + jiffies - m_jiffies_when_scheduled[t] \in Int
    BY <1>1, <2>1, SchedulerAssumption DEF SchedulerInv, TypeOK, Jiffies
  <2>4. cputime(t) \in Jiffies
    BY <2>1, <2>3, ModInJiffies DEF cputime, SchedulerInv, TypeOK
  <2>5. QED
    BY <1>1, <2>2, <2>4, ChargeNothing
<1>10. QED
  BY <1>2, <1>3, <1>4, <1>6, <1>7, <1>8, <1>9 DEF Next, Decision

\* The CPU time that Task::cputime reports is exact: whatever the order of timer
\* interrupts, yields, waits and exits, the jiffies that pass are charged to the task
\* that had the CPU and to no other, in u32 arithmetic.
THEOREM CpuTimeIsExact == Spec => CpuTimeGoesToRunningTask
<1>1. QED
  BY SchedulerInvariant, NextCharges, PTL DEF Spec, CpuTimeGoesToRunningTask
-----------------------------------------------------------------------------
(***************************************************************************)
(* The loop of pick_next_task ends.                                        *)
(***************************************************************************)

\* The least-number principle, for a set.
LEMMA LeastElement ==
  ASSUME NEW S, S \subseteq Nat, S # {}
  PROVE  \E m \in S : \A k \in S : m <= k
<1>1. PICK m \in S : \A k \in S : ~(<<k, m>> \in OpToRel(<, Nat))
  BY NatLessThanWellFounded, WFMin
<1>2. \A k \in S : ~(k < m)
  BY <1>1 DEF OpToRel
<1>3. QED
  BY <1>2

\* Going round a vector of length n.
LEMMA GoRound ==
  ASSUME NEW n \in Nat \ {0}, NEW x \in 0 .. n - 1, NEW q \in Int, NEW y \in Int,
         y = n * q + x
  PROVE  y % n = x
OBVIOUS

\* If any task of the vector can run, the loop finds one.
LEMMA PickFindsTask ==
  ASSUME NEW ts \in Seq(Tasks), Len(ts) > 0, NEW i \in Nat,
         NEW s, NEW w, NEW j, NEW io,
         NEW p \in DOMAIN ts, CanRun(ts[p], s, w, j, io)
  PROVE  pick_next_task(ts, i, s, w, j, io) # {}
<1> DEFINE n == Len(ts)
           f == NextIndex(ts, i)
           S == {k \in 0 .. n - 1 : CanRun(ts[After(ts, i, k) + 1], s, w, j, io)}
           d == IF p - 1 >= f THEN p - 1 - f ELSE p - 1 - f + n
<1>1. n \in Nat \ {0} /\ p \in 1 .. n
  OBVIOUS
<1>2. f \in 0 .. n - 1
  BY <1>1 DEF NextIndex
<1>3. d \in 0 .. n - 1 /\ After(ts, i, d) = p - 1
  <2>1. d \in 0 .. n - 1 /\ p - 1 \in 0 .. n - 1
    BY <1>1, <1>2
  <2> DEFINE y == f + d
             q == IF p - 1 >= f THEN 0 ELSE 1
  <2>2. y \in Int /\ q \in Int /\ y = n * q + (p - 1)
    BY <1>1, <1>2
  <2> HIDE DEF y, q
  <2>3. y % n = p - 1
    BY <1>1, <2>1, <2>2, GoRound
  <2>4. QED
    BY <2>1, <2>3 DEF After, y
<1>4. d \in S
  BY <1>1, <1>3
<1>5. S \subseteq Nat /\ S # {}
  BY <1>4
<1> HIDE DEF d
<1>6. PICK m \in S : \A k \in S : m <= k
  BY <1>5, LeastElement
<1>7. \A h \in 0 .. m - 1 : ~CanRun(ts[After(ts, i, h) + 1], s, w, j, io)
  BY <1>1, <1>6
<1>8. After(ts, i, m) \in pick_next_task(ts, i, s, w, j, io)
  BY <1>6, <1>7 DEF pick_next_task
<1>9. QED
  BY <1>8

\* "We never have to deal with no runnable tasks": because the spin task stays in the
\* vector and never waits, pick_next_task ends even if the running task blocks and
\* every other task is waiting.
THEOREM SchedulerNeverStuck == Spec => []SomebodyCanRun
<1>1. SchedulerInv => SomebodyCanRun
  <2> SUFFICES ASSUME SchedulerInv, Running # SpinTask
               PROVE  SomebodyCanRun
    BY DEF SomebodyCanRun
  <2> DEFINE s == [m_state EXCEPT ![Running] = "Waiting"]
             w == [m_waiting_for EXCEPT ![Running] = NoWaitable]
             p == Len(m_tasks)
  <2>1. /\ m_tasks \in Seq(Tasks) /\ p > 0 /\ m_running_task_index \in Nat
        /\ p \in DOMAIN m_tasks /\ m_tasks[p] = SpinTask
    BY DEF SchedulerInv, TypeOK, TasksWellFormed
  <2>2. s[SpinTask] \in {"New", "Runnable"}
    BY Constants DEF SchedulerInv, TypeOK, State
  <2>3. CanRun(m_tasks[p], s, w, jiffies, ioFinished)
    BY <2>1, <2>2 DEF CanRun
  <2> HIDE DEF s, w
  <2>4. pick_next_task(m_tasks, m_running_task_index, s, w, jiffies, ioFinished) # {}
    BY <2>1, <2>3, PickFindsTask
  <2>5. QED
    BY <2>4 DEF SomebodyCanRun, s, w
<1>2. QED
  BY <1>1, SchedulerInvariant, PTL

-----------------------------------------------------------------------------
(***************************************************************************)
(* Round robin, with what module SchedulerHistory observes.  The decisions *)
(* that have passed over a task and the places the loop has still to go to *)
(* reach it add up to at most Bound: a decision that passes over the task  *)
(* brings the loop nearer to it, and only an exit may carry the loop past  *)
(* it, for a round that Bound allows for.                                  *)
(***************************************************************************)
Bound == Len(InitialTasks) + Exits * (Len(InitialTasks) - 2)

\* From index i, the number of rounds of the loop up to index x.
Ahead(i, x, n) == IF x > i THEN x - i ELSE x - i + n

\* From the running task to place p of the vector.
Behind(p) ==
  LET d == p - 1 - m_running_task_index IN IF d >= 0 THEN d ELSE d + Len(m_tasks)

PassedInv ==
  /\ passed \in [Tasks -> Nat]
  /\ Len(m_tasks) <= Len(InitialTasks)
  /\ passed[Running] = 0
  /\ \A p \in DOMAIN m_tasks : passed[m_tasks[p]] + Behind(p) <= Bound

LEMMA AheadAfter ==
  ASSUME NEW ts \in Seq(Tasks), NEW n \in Nat \ {0}, n = Len(ts), NEW i \in 0 .. n - 1
  PROVE  /\ \A k \in 0 .. n - 1 : Ahead(i, After(ts, i, k), n) = k + 1
         /\ \A x \in 0 .. n - 1 :
              /\ Ahead(i, x, n) \in 1 .. n
              /\ After(ts, i, Ahead(i, x, n) - 1) = x
<1>1. ASSUME NEW k \in 0 .. n - 1
      PROVE  Ahead(i, After(ts, i, k), n) = k + 1
  <2>1. CASE i + 1 + k < n
    <3>1. (i + 1 + k) % n = i + 1 + k
      BY <2>1, GoRound
    <3>2. After(ts, i, k) = i + 1 + k
      BY <2>1, <3>1 DEF After, NextIndex
    <3>3. QED
      BY <3>2 DEF Ahead
  <2>2. CASE i + 1 + k >= n /\ i + 1 < n
    <3>1. (i + 1 + k) % n = i + 1 + k - n
      BY <2>2, GoRound
    <3>2. After(ts, i, k) = i + 1 + k - n
      BY <2>2, <3>1 DEF After, NextIndex
    <3>3. QED
      BY <3>2 DEF Ahead
  <2>3. CASE i + 1 >= n
    <3>1. (0 + k) % n = k
      BY GoRound
    <3>2. After(ts, i, k) = k /\ i = n - 1
      BY <2>3, <3>1 DEF After, NextIndex
    <3>3. QED
      BY <3>2 DEF Ahead
  <2>4. QED
    BY <2>1, <2>2, <2>3
<1>2. ASSUME NEW x \in 0 .. n - 1
      PROVE  /\ Ahead(i, x, n) \in 1 .. n
             /\ After(ts, i, Ahead(i, x, n) - 1) = x
  <2> DEFINE k == Ahead(i, x, n) - 1
  <2>1. Ahead(i, x, n) \in 1 .. n /\ k \in 0 .. n - 1
    BY DEF Ahead
  <2>2. Ahead(i, After(ts, i, k), n) = Ahead(i, x, n)
    BY <1>1, <2>1
  <2> HIDE DEF k
  <2>3. After(ts, i, k) \in 0 .. n - 1
    <3>1. NextIndex(ts, i) + k \in Int
      BY <2>1 DEF NextIndex
    <3>2. QED
      BY <3>1 DEF After
  <2>4. After(ts, i, k) = x
    BY <2>2, <2>3 DEF Ahead
  <2>5. QED
    BY <2>1, <2>4 DEF k
<1>3. QED
  BY <1>1, <1>2

\* The distance between two places is the difference of their distances from a third.
LEMMA Distances ==
  ASSUME NEW n \in Nat \ {0}, NEW i \in 0 .. n - 1, NEW x \in 0 .. n - 1,
         NEW y \in 0 .. n - 1, Ahead(i, y, n) < Ahead(i, x, n)
  PROVE  (IF x >= y THEN x - y ELSE x - y + n) = Ahead(i, x, n) - Ahead(i, y, n)
<1>1. CASE y > i /\ x > i
  BY <1>1 DEF Ahead
<1>2. CASE y > i /\ x <= i
  BY <1>2 DEF Ahead
<1>3. CASE y <= i /\ x > i
  BY <1>3 DEF Ahead
<1>4. CASE y <= i /\ x <= i
  BY <1>4 DEF Ahead
<1>5. QED
  BY <1>1, <1>2, <1>3, <1>4

\* The loop stops before it comes to any other task that can run.
LEMMA PickIsFirst ==
  ASSUME NEW ts \in Seq(Tasks), NEW n \in Nat \ {0}, n = Len(ts), NEW i \in 0 .. n - 1,
         NEW s, NEW w, NEW j, NEW io,
         NEW next \in pick_next_task(ts, i, s, w, j, io),
         NEW p \in 1 .. n, CanRun(ts[p], s, w, j, io), p - 1 # next
  PROVE  Ahead(i, next, n) < Ahead(i, p - 1, n)
<1>1. PICK k \in 0 .. n - 1 :
        /\ next = After(ts, i, k)
        /\ \A h \in 0 .. k - 1 : ~CanRun(ts[After(ts, i, h) + 1], s, w, j, io)
  BY DEF pick_next_task
<1> DEFINE h == Ahead(i, p - 1, n) - 1
<1>2. h \in 0 .. n - 1 /\ After(ts, i, h) = p - 1 /\ Ahead(i, next, n) = k + 1
  <2>1. p - 1 \in 0 .. n - 1
    OBVIOUS
  <2>2. Ahead(i, p - 1, n) \in 1 .. n /\ After(ts, i, Ahead(i, p - 1, n) - 1) = p - 1
    BY <2>1, AheadAfter
  <2>3. Ahead(i, next, n) = k + 1
    BY <1>1, AheadAfter
  <2>4. QED
    BY <2>2, <2>3
<1>3. h # k
  BY <1>1, <1>2
<1>4. ~(h \in 0 .. k - 1)
  <2> HIDE DEF h
  <2>1. (p - 1) + 1 = p
    OBVIOUS
  <2>2. QED
    BY <1>1, <1>2, <2>1
<1>5. Ahead(i, p - 1, n) = h + 1
  BY <1>2, AheadAfter
<1> HIDE DEF h
<1>6. QED
  BY <1>2, <1>3, <1>4, <1>5

\* What a decision does to the count of a task and to its distance from the loop.
LEMMA DecisionPasses ==
  ASSUME passed \in [Tasks -> Nat],
         NEW ts \in Seq(Tasks), NEW n \in Nat \ {0}, n = Len(ts), NEW i \in 0 .. n - 1,
         NEW s \in [Tasks -> State], NEW w, NEW j, NEW io,
         \A a, b \in DOMAIN ts : ts[a] = ts[b] => a = b,
         NEW next \in pick_next_task(ts, i, s, w, j, io),
         m_tasks' = ts, m_running_task_index' = next,
         m_state' = [s EXCEPT ![ts[next + 1]] = "Runnable"],
         m_waiting_for' = w, jiffies' = j, ioFinished' = io, ObservePassed
  PROVE  /\ passed' \in [Tasks -> Nat] /\ passed'[Running'] = 0
         /\ \A p \in 1 .. n :
              \/ passed'[ts[p]] = 0 /\ Behind(p)' \in 0 .. n - 1
              \/ /\ passed'[ts[p]] = passed[ts[p]] + 1
                 /\ Behind(p)' \in 1 .. Ahead(i, p - 1, n) - 1
<1>1. /\ next \in 0 .. n - 1 /\ next + 1 \in DOMAIN ts /\ ts[next + 1] \in Tasks
      /\ Running' = ts[next + 1]
  <2>1. Len(ts) > 0 /\ i \in Nat
    OBVIOUS
  <2>2. next \in 0 .. Len(ts) - 1 /\ next + 1 \in DOMAIN ts /\ ts[next + 1] \in Tasks
    BY <2>1, PickInRange, Zenon
  <2>3. QED
    BY <2>2 DEF Running
<1>2. passed' = [t \in Tasks |->
        IF Running' # t /\ t \in Live' /\ CouldRun(t)' THEN passed[t] + 1 ELSE 0]
  BY DEF ObservePassed
<1>3. passed' \in [Tasks -> Nat] /\ passed'[Running'] = 0
  BY <1>1, <1>2
<1>4. ASSUME NEW p \in 1 .. n
      PROVE  Behind(p)' = IF p - 1 >= next THEN p - 1 - next ELSE p - 1 - next + n
  BY <1>1 DEF Behind
<1>5. ASSUME NEW p \in 1 .. n, passed'[ts[p]] # 0
      PROVE  /\ passed'[ts[p]] = passed[ts[p]] + 1
             /\ Behind(p)' \in 1 .. Ahead(i, p - 1, n) - 1
  <2>1. ts[p] \in Tasks
    OBVIOUS
  <2>2. /\ passed'[ts[p]] = passed[ts[p]] + 1
        /\ Running' # ts[p] /\ CouldRun(ts[p])'
    BY <1>2, <1>5, <2>1
  <2>3. p - 1 # next
    BY <1>1, <2>2
  <2>4. m_state'[ts[p]] = s[ts[p]]
    BY <1>1, <2>1, <2>2
  <2>5. CanRun(ts[p], s, w, j, io)
    BY <2>2, <2>4 DEF CouldRun, CanRun
  <2>6. Ahead(i, next, n) < Ahead(i, p - 1, n)
    BY <2>3, <2>5, PickIsFirst
  <2>7. Behind(p)' = Ahead(i, p - 1, n) - Ahead(i, next, n)
    <3>1. p - 1 \in 0 .. n - 1 /\ next \in 0 .. n - 1
      BY <1>1
    <3>2. (IF p - 1 >= next THEN p - 1 - next ELSE p - 1 - next + n)
            = Ahead(i, p - 1, n) - Ahead(i, next, n)
      BY <2>6, <3>1, Distances
    <3>3. QED
      BY <1>4, <3>2
  <2>8. Ahead(i, next, n) \in 1 .. n /\ Ahead(i, p - 1, n) \in 1 .. n
    <3>1. p - 1 \in 0 .. n - 1
      OBVIOUS
    <3>2. QED
      BY <1>1, <3>1, AheadAfter
  <2>9. QED
    BY <2>2, <2>6, <2>7, <2>8
<1>6. ASSUME NEW p \in 1 .. n
      PROVE  Behind(p)' \in 0 .. n - 1
  <2>1. (IF p - 1 >= next THEN p - 1 - next ELSE p - 1 - next + n) \in 0 .. n - 1
    BY <1>1
  <2>2. QED
    BY <1>4, <2>1
<1>7. QED
  BY <1>3, <1>5, <1>6

\* Bound leaves room for a round.
LEMMA BoundIsEnough ==
  ASSUME SchedulerInv, Len(m_tasks) <= Len(InitialTasks)
  PROVE  Bound \in Int /\ Len(m_tasks) <= Bound
<1> DEFINE n == Len(m_tasks)
           m == Len(InitialTasks)
<1>1. n \in Nat /\ n > 0 /\ m \in Nat /\ n <= m
  BY Constants DEF SchedulerInv, TypeOK, TasksWellFormed
<1> HIDE DEF n, m
<1>2. CASE n = m
  <2>1. m - n = 0 /\ 0 * (m - 2) = 0
    BY <1>1, <1>2
  <2>2. QED
    BY <1>1, <1>2, <2>1 DEF Bound, Exits, n, m
<1>3. CASE n < m
  <2>1. \A a, b \in Nat : a * b \in Nat
    OBVIOUS
  <2>2. m - n \in Nat /\ m - 2 \in Nat
    BY <1>1, <1>3
  <2>3. (m - n) * (m - 2) \in Nat
    BY <2>1, <2>2
  <2>4. QED
    BY <1>1, <2>3 DEF Bound, Exits, n, m
<1>4. QED
  BY <1>1, <1>2, <1>3

LEMMA schedulePasses ==
  ASSUME SchedulerInv, PassedInv,
         NEW s \in [Tasks -> State], NEW w, NEW j, NEW io,
         schedule(s, w, j, io), ioFinished' = io, ObservePassed
  PROVE  PassedInv'
<1> DEFINE n == Len(m_tasks)
           i == m_running_task_index
<1>1. /\ m_tasks \in Seq(Tasks) /\ n \in Nat \ {0} /\ i \in 0 .. n - 1
      /\ \A a, b \in DOMAIN m_tasks : m_tasks[a] = m_tasks[b] => a = b
      /\ DOMAIN m_tasks = 1 .. n
  BY DEF SchedulerInv, TypeOK, TasksWellFormed
<1>2. PICK next \in pick_next_task(m_tasks, i, s, w, j, io) :
        /\ m_running_task_index' = next
        /\ m_state' = [s EXCEPT ![m_tasks[next + 1]] = "Runnable"]
        /\ m_waiting_for' = w /\ jiffies' = j
        /\ m_tasks' = m_tasks
  BY DEF schedule
<1>3. /\ passed' \in [Tasks -> Nat] /\ passed'[Running'] = 0
      /\ \A p \in 1 .. n :
           \/ passed'[m_tasks[p]] = 0 /\ Behind(p)' \in 0 .. n - 1
           \/ /\ passed'[m_tasks[p]] = passed[m_tasks[p]] + 1
              /\ Behind(p)' \in 1 .. Ahead(i, p - 1, n) - 1
  BY <1>1, <1>2, DecisionPasses DEF PassedInv
<1>4. Bound' = Bound /\ Bound \in Int /\ n <= Bound
  BY <1>2, BoundIsEnough DEF Bound, Exits, PassedInv
<1>5. ASSUME NEW p \in 1 .. n
      PROVE  passed'[m_tasks[p]] + Behind(p)' <= Bound
  <2>1. m_tasks[p] \in Tasks
    BY <1>1
  <2>2. passed[m_tasks[p]] \in Nat /\ passed[m_tasks[p]] + Behind(p) <= Bound
    BY <1>1, <2>1 DEF PassedInv
  <2>3. CASE p - 1 = i
    <3>1. passed[m_tasks[p]] = 0
      BY <1>1, <2>3 DEF PassedInv, Running
    <3>2. Ahead(i, p - 1, n) = n
      BY <1>1, <2>3 DEF Ahead
    <3>3. QED
      BY <1>1, <1>3, <1>4, <3>1, <3>2
  <2>4. CASE p - 1 # i
    <3>1. Ahead(i, p - 1, n) = Behind(p)
      BY <1>1, <2>4 DEF Ahead, Behind
    <3>2. Behind(p) \in 1 .. n
      BY <1>1, <2>4 DEF Behind
    <3>3. QED
      BY <1>3, <1>4, <2>2, <3>1, <3>2
  <2>5. QED
    BY <2>3, <2>4
<1>6. QED
  BY <1>1, <1>2, <1>3, <1>4, <1>5 DEF PassedInv

\* The arithmetic of an exit: a task that stays is passed over once more and comes nearer
\* (b to ahead), but for the successor of the task that exits, which is put at the end.
LEMMA RoomAfterExit ==
  ASSUME NEW n \in Nat, NEW m \in Nat, n <= m, NEW bound \in Int, n <= bound, m - 2 >= 0
  PROVE  \A count, behind, before, ahead, b \in Int :
           /\ \/ count = 0 /\ behind <= n - 2
              \/ count = before + 1 /\ behind <= ahead - 1
           /\ before + b <= bound
           /\ \/ b = 1 /\ ahead = n - 1
              \/ ahead = b - 1
           => count + behind <= bound + (m - 2)
OBVIOUS

LEMMA ExitPasses ==
  ASSUME SchedulerInv, PassedInv, Exit, ObservePassed
  PROVE  PassedInv'
<1>0. PICK n \in Nat \ {0}, i \in Nat, m \in Nat :
        /\ n = Len(m_tasks) /\ i = m_running_task_index /\ i \in 0 .. n - 1
        /\ m = Len(InitialTasks) /\ n <= m
  <2>1. /\ Len(m_tasks) \in Nat \ {0} /\ m_running_task_index \in Nat
        /\ m_running_task_index \in 0 .. Len(m_tasks) - 1
        /\ Len(InitialTasks) \in Nat /\ Len(m_tasks) <= Len(InitialTasks)
    BY Constants DEF SchedulerInv, TypeOK, TasksWellFormed, PassedInv
  <2>2. QED
    BY <2>1
<1>1. /\ m_tasks \in Seq(Tasks)
      /\ \A a, b \in DOMAIN m_tasks : m_tasks[a] = m_tasks[b] => a = b
      /\ DOMAIN m_tasks = 1 .. n
      /\ m_state \in [Tasks -> State]
  BY <1>0 DEF SchedulerInv, TypeOK, TasksWellFormed
<1>2. i + 1 # n
  BY <1>0 DEF Exit, InSyscall, UserTasks, Running, SchedulerInv, TasksWellFormed
<1> DEFINE ts == Remove(m_tasks, i)
           old(p) == IF p <= i THEN p ELSE p + 1
<1>3. /\ ts \in Seq(Tasks) /\ Len(ts) = n - 1 /\ n - 1 \in Nat \ {0}
      /\ DOMAIN ts = 1 .. n - 1 /\ i \in 0 .. (n - 1) - 1
      /\ \A p \in 1 .. n - 1 : old(p) \in 1 .. n /\ ts[p] = m_tasks[old(p)]
  <2>1. /\ ts \in Seq(Tasks) /\ Len(ts) = n - 1 /\ DOMAIN ts = 1 .. n - 1
        /\ \A p \in 1 .. n - 1 : ts[p] = IF p <= i THEN m_tasks[p] ELSE m_tasks[p + 1]
    <3>1. i \in 0 .. Len(m_tasks) - 1 /\ Len(m_tasks) = n
      BY <1>0
    <3>2. QED
      BY <1>1, <3>1, RemoveType
  <2>2. n - 1 \in Nat \ {0} /\ i \in 0 .. (n - 1) - 1
    BY <1>0, <1>2
  <2>3. ASSUME NEW p \in 1 .. n - 1
        PROVE  old(p) \in 1 .. n /\ ts[p] = m_tasks[old(p)]
    <3> HIDE DEF ts
    <3>1. QED
      BY <1>1, <2>1, <2>3
  <2>4. QED
    BY <2>1, <2>2, <2>3
<1>4. \A a, b \in DOMAIN ts : ts[a] = ts[b] => a = b
  <2>1. \A a, b \in 1 .. n - 1 : old(a) = old(b) => a = b
    BY <1>1
  <2> HIDE DEF ts, old
  <2>2. QED
    BY <1>1, <1>3, <2>1
<1>5. PICK next \in pick_next_task(ts, i, m_state, m_waiting_for, jiffies, ioFinished) :
        /\ m_running_task_index' = next
        /\ m_state' = [m_state EXCEPT ![ts[next + 1]] = "Runnable"]
        /\ m_waiting_for' = m_waiting_for /\ jiffies' = jiffies /\ ioFinished' = ioFinished
        /\ m_tasks' = ts
  BY <1>0 DEF Exit
<1> HIDE DEF ts, old
<1>6. /\ passed' \in [Tasks -> Nat] /\ passed'[Running'] = 0
      /\ \A p \in 1 .. n - 1 :
           \/ passed'[ts[p]] = 0 /\ Behind(p)' \in 0 .. (n - 1) - 1
           \/ /\ passed'[ts[p]] = passed[ts[p]] + 1
              /\ Behind(p)' \in 1 .. Ahead(i, p - 1, n - 1) - 1
  <2>1. passed \in [Tasks -> Nat]
    BY DEF PassedInv
  <2>2. QED
    BY <1>1, <1>3, <1>4, <1>5, <2>1, DecisionPasses
<1>7. /\ Bound \in Int /\ n <= Bound
      /\ Bound' = Bound + (m - 2) /\ m - 2 \in Nat
  <2>1. Bound \in Int /\ n <= Bound
    BY <1>0, BoundIsEnough
  <2>2. Bound = m + (m - n) * (m - 2)
    BY <1>0 DEF Bound, Exits
  <2>3. Bound' = m + (m - (n - 1)) * (m - 2)
    BY <1>0, <1>3, <1>5 DEF Bound, Exits
  <2>4. (m - (n - 1)) * (m - 2) = (m - n) * (m - 2) + (m - 2)
    OBVIOUS
  <2>5. QED
    BY <1>0, <1>3, <2>1, <2>2, <2>3, <2>4
<1>8. ASSUME NEW p \in 1 .. n - 1
      PROVE  passed'[ts[p]] + Behind(p)' <= Bound'
  <2>1. /\ passed[ts[p]] \in Nat
        /\ passed[ts[p]] + Behind(old(p)) <= Bound
    <3>1. old(p) \in 1 .. n /\ ts[p] = m_tasks[old(p)]
      BY <1>3
    <3>2. m_tasks[old(p)] \in Tasks
      BY <1>1, <3>1
    <3>3. QED
      BY <1>1, <3>1, <3>2 DEF PassedInv
  <2>2. \/ /\ passed'[ts[p]] = 0
           /\ Behind(p)' \in 0 .. (n - 1) - 1
        \/ /\ passed'[ts[p]] = passed[ts[p]] + 1
           /\ Behind(p)' \in 1 .. Ahead(i, p - 1, n - 1) - 1
    BY <1>6
  <2>3. \/ Behind(old(p)) = 1 /\ Ahead(i, p - 1, n - 1) = n - 1
        \/ Ahead(i, p - 1, n - 1) = Behind(old(p)) - 1
    <3>1. CASE p <= i
      <4>1. old(p) = p
        BY <3>1 DEF old
      <4>2. Behind(old(p)) = p - 1 - i + n
        BY <1>0, <3>1, <4>1 DEF Behind
      <4>3. Ahead(i, p - 1, n - 1) = p - 1 - i + (n - 1)
        BY <1>0, <3>1 DEF Ahead
      <4>4. QED
        BY <1>0, <4>2, <4>3
    <3>2. CASE p > i
      <4>1. old(p) = p + 1
        BY <1>0, <3>2 DEF old
      <4>2. Behind(old(p)) = p - i
        BY <1>0, <3>2, <4>1 DEF Behind
      <4>3. Ahead(i, p - 1, n - 1) = IF p - 1 > i THEN p - 1 - i ELSE n - 1
        BY <1>0, <3>2 DEF Ahead
      <4>4. QED
        BY <1>0, <3>2, <4>2, <4>3
    <3>3. QED
      BY <1>0, <3>1, <3>2
  <2>4. /\ Behind(old(p)) \in Int /\ Behind(p)' \in Int
        /\ Ahead(i, p - 1, n - 1) \in Int /\ passed'[ts[p]] \in Int
    <3>1. old(p) \in Int /\ p - 1 \in Int
      BY <1>0 DEF old
    <3>2. Behind(old(p)) \in Int
      BY <1>0, <3>1 DEF Behind
    <3>3. Ahead(i, p - 1, n - 1) \in Int
      BY <1>0, <3>1 DEF Ahead
    <3>4. QED
      BY <2>1, <2>2, <3>2, <3>3
  <2>5. \/ passed'[ts[p]] = 0 /\ Behind(p)' <= n - 2
        \/ passed'[ts[p]] = passed[ts[p]] + 1 /\ Behind(p)' <= Ahead(i, p - 1, n - 1) - 1
    BY <2>2, <2>4
  <2>6. passed'[ts[p]] + Behind(p)' <= Bound + (m - 2)
    <3>1. \A count, behind, before, ahead, b \in Int :
            /\ \/ count = 0 /\ behind <= n - 2
               \/ count = before + 1 /\ behind <= ahead - 1
            /\ before + b <= Bound
            /\ \/ b = 1 /\ ahead = n - 1
               \/ ahead = b - 1
            => count + behind <= Bound + (m - 2)
      BY <1>0, <1>7, RoomAfterExit
    <3>2. passed[ts[p]] \in Int
      BY <2>1
    <3>3. QED
      BY <2>1, <2>3, <2>4, <2>5, <3>1, <3>2, Zenon
  <2>7. QED
    BY <1>7, <2>6
<1>9. Len(m_tasks') <= Len(InitialTasks)
  BY <1>0, <1>3, <1>5
<1>10. QED
  BY <1>3, <1>5, <1>6, <1>8, <1>9 DEF PassedInv
-----------------------------------------------------------------------------
(***************************************************************************)
(* Sleeping.  What a task has still to sleep does not reach beyond the end *)
(* that it waits for, so that nothing is left of it once the clock shows   *)
(* that end.                                                               *)
(***************************************************************************)
Asleep(t) == m_state[t] = "Waiting" /\ m_waiting_for[t].kind = "sleep"

SleepInv ==
  /\ left \in [Tasks -> Nat]
  /\ \A t \in Tasks : Asleep(t) => left[t] = 0 \/ jiffies + left[t] <= m_waiting_for[t].end

\* The step that SleepIsNotCutShort is about.
WakesRested ==
  \A t \in Live :
    /\ m_state[t] = "Waiting" /\ m_waiting_for[t].kind = "sleep"
    /\ m_state'[t] = "Runnable"
    => left'[t] = 0

LEMMA ModDifference ==
  ASSUME NEW a \in Jiffies, NEW b \in Jiffies
  PROVE  /\ (b - a) % JiffiesModulus \in Nat
         /\ (b - a) % JiffiesModulus = IF b >= a THEN b - a ELSE b - a + JiffiesModulus
<1>1. /\ JiffiesModulus \in Nat /\ JiffiesModulus > 0
      /\ a \in 0 .. JiffiesModulus - 1 /\ b \in 0 .. JiffiesModulus - 1
  BY SchedulerAssumption DEF Jiffies
<1>2. CASE b >= a
  <2>1. b - a \in Jiffies
    BY <1>1, <1>2 DEF Jiffies
  <2>2. (b - a) % JiffiesModulus = b - a
    BY <2>1, ModIdentity
  <2>3. QED
    BY <1>1, <1>2, <2>2
<1>3. CASE b < a
  <2> DEFINE r == b - a + JiffiesModulus
  <2>1. r \in 0 .. JiffiesModulus - 1
    BY <1>1, <1>3
  <2>2. b - a = JiffiesModulus * (-1) + r
    BY <1>1
  <2>3. b - a \in Int /\ -1 \in Int
    BY <1>1
  <2> HIDE DEF r
  <2>4. (b - a) % JiffiesModulus = r
    BY <2>1, <2>2, <2>3, ModUnique
  <2>5. QED
    BY <1>1, <1>3, <2>1, <2>4 DEF r
<1>4. QED
  BY <1>1, <1>2, <1>3

\* The clock may go round: then more time has passed than an end before the turn allows.
LEMMA TimePasses ==
  ASSUME left \in [Tasks -> Nat], jiffies \in Jiffies, jiffies' \in Jiffies, ObserveTime,
         NEW t \in Tasks
  PROVE  /\ left' \in [Tasks -> Nat]
         /\ \A end \in Jiffies :
              left[t] = 0 \/ jiffies + left[t] <= end
                => left'[t] = 0 \/ jiffies' + left'[t] <= end
<1>1. /\ JiffiesModulus \in Nat \ {0}
      /\ jiffies \in 0 .. JiffiesModulus - 1 /\ jiffies' \in 0 .. JiffiesModulus - 1
  BY SchedulerAssumption DEF Jiffies
<1>2. Elapsed = IF jiffies' >= jiffies THEN jiffies' - jiffies
                ELSE jiffies' - jiffies + JiffiesModulus
  BY ModDifference DEF Elapsed
<1>3. Elapsed \in Nat
  BY ModDifference DEF Elapsed
<1>4. left' = [u \in Tasks |-> IF left[u] > Elapsed THEN left[u] - Elapsed ELSE 0]
  BY DEF ObserveTime
<1> HIDE DEF Elapsed
<1>5. left' \in [Tasks -> Nat]
  BY <1>3, <1>4
<1>6. left[t] \in Nat /\ left'[t] = IF left[t] > Elapsed THEN left[t] - Elapsed ELSE 0
  BY <1>4
<1>7. ASSUME NEW end \in Jiffies, left[t] = 0 \/ jiffies + left[t] <= end
      PROVE  left'[t] = 0 \/ jiffies' + left'[t] <= end
  <2>1. end \in 0 .. JiffiesModulus - 1
    BY <1>7 DEF Jiffies
  <2>2. QED
    BY <1>1, <1>2, <1>3, <1>6, <1>7, <2>1
<1>8. QED
  BY <1>5, <1>7

\* s and w are what the caller leaves for the scheduler, j is the time at which it picks.
LEMMA DecisionWakes ==
  ASSUME SchedulerInv, NEW ts \in Seq(Tasks), Len(ts) > 0, NEW i \in Nat,
         NEW s \in [Tasks -> State], NEW w \in [Tasks -> Waitable],
         NEW j \in Jiffies, NEW io,
         NEW next \in pick_next_task(ts, i, s, w, j, io),
         m_state' = [s EXCEPT ![ts[next + 1]] = "Runnable"],
         m_waiting_for' = w, jiffies' = j,
         \A t \in Tasks : Asleep(t) => s[t] = "Waiting" /\ w[t] = m_waiting_for[t],
         left' \in [Tasks -> Nat],
         \A t \in Tasks : s[t] = "Waiting" /\ w[t].kind = "sleep" =>
           left'[t] = 0 \/ j + left'[t] <= w[t].end
  PROVE  SleepInv' /\ WakesRested
<1>1. ts[next + 1] \in Tasks /\ CanRun(ts[next + 1], s, w, j, io)
  BY PickInRange
<1>2. SleepInv'
  BY <1>1 DEF SleepInv, Asleep
<1>3. WakesRested
  <2>1. SUFFICES ASSUME NEW t \in Live, Asleep(t), m_state'[t] = "Runnable"
                 PROVE  left'[t] = 0
    BY DEF WakesRested, Asleep
  <2>2. t \in Tasks
    BY DEF SchedulerInv, TypeOK, Live
  <2>3. s[t] = "Waiting" /\ w[t].kind = "sleep"
    BY <2>1, <2>2 DEF Asleep
  <2>4. t = ts[next + 1]
    BY <1>1, <2>1, <2>2, <2>3
  <2>5. w[t].end <= j /\ w[t].end \in Jiffies
    BY <1>1, <2>2, <2>3, <2>4 DEF CanRun, IsFinished, Waitable
  <2>6. left'[t] \in Nat /\ (left'[t] = 0 \/ j + left'[t] <= w[t].end)
    BY <2>2, <2>3
  <2>7. j \in Int /\ w[t].end \in Int
    BY <2>5, SchedulerAssumption DEF Jiffies
  <2>8. QED
    BY <2>5, <2>6, <2>7
<1>4. QED
  BY <1>2, <1>3

\* A decision that only lets time pass, taken in any vector of tasks.
LEMMA TimeWakes ==
  ASSUME SchedulerInv, SleepInv, NEW ts \in Seq(Tasks), Len(ts) > 0, NEW i \in Nat,
         NEW s \in [Tasks -> State], NEW w \in [Tasks -> Waitable],
         NEW j \in Jiffies, NEW io,
         NEW next \in pick_next_task(ts, i, s, w, j, io),
         m_state' = [s EXCEPT ![ts[next + 1]] = "Runnable"],
         m_waiting_for' = w, jiffies' = j,
         \A t \in Tasks : Asleep(t) => s[t] = "Waiting" /\ w[t] = m_waiting_for[t],
         \A t \in Tasks : s[t] = "Waiting" /\ w[t].kind = "sleep" => Asleep(t),
         ObserveTime
  PROVE  SleepInv' /\ WakesRested
<1>1. jiffies \in Jiffies /\ left \in [Tasks -> Nat] /\ m_waiting_for \in [Tasks -> Waitable]
  BY DEF SchedulerInv, TypeOK, SleepInv
<1>2. left' \in [Tasks -> Nat]
  BY <1>1, TimePasses, Constants
<1>3. ASSUME NEW t \in Tasks, s[t] = "Waiting", w[t].kind = "sleep"
      PROVE  left'[t] = 0 \/ j + left'[t] <= w[t].end
  <2>1. Asleep(t) /\ w[t] = m_waiting_for[t] /\ w[t].end \in Jiffies
    BY <1>1, <1>3 DEF Waitable
  <2>2. left[t] = 0 \/ jiffies + left[t] <= w[t].end
    BY <2>1 DEF SleepInv
  <2>3. QED
    BY <1>1, <2>1, <2>2, TimePasses
<1>4. QED
  BY <1>2, <1>3, DecisionWakes

\* Going to sleep: an end that does not wrap is as far away as what is left.
LEMMA SleepWakes ==
  ASSUME SchedulerInv, SleepInv, NEW secs \in SleepSecs, Sleep(secs), ObserveSleep(secs)
  PROVE  SleepInv' /\ WakesRested
<1> DEFINE w0 == SleepWaitable(secs)
           s == [m_state EXCEPT ![Running] = "Waiting"]
           w == [m_waiting_for EXCEPT ![Running] = w0]
           time == secs * SysHz
<1>1. /\ started /\ schedule(s, w, jiffies, ioFinished)
      /\ left' = [left EXCEPT ![Running] =
                    IF jiffies + time < JiffiesModulus THEN time ELSE 0]
  BY DEF Sleep, reschedule_while_waiting_for, InSyscall, ObserveSleep
<1>2. /\ m_tasks \in Seq(Tasks) /\ Len(m_tasks) > 0 /\ m_running_task_index \in Nat
      /\ m_state \in [Tasks -> State] /\ m_waiting_for \in [Tasks -> Waitable]
      /\ jiffies \in Jiffies /\ Running \in Tasks
      /\ left \in [Tasks -> Nat] /\ m_state[Running] = "Runnable"
  BY <1>1 DEF SchedulerInv, TypeOK, TasksWellFormed, Running, SleepInv, RunningTaskIsRunnable
<1>3. time \in Nat
  <2>1. \A a, b \in Nat : a * b \in Nat
    OBVIOUS
  <2>2. QED
    BY <2>1, SchedulerAssumption
<1> HIDE DEF time
<1>4. /\ w0 \in Waitable /\ w0.kind = "sleep"
      /\ jiffies + time < JiffiesModulus => w0.end = jiffies + time
  <2>1. w0 = [kind |-> "sleep", end |-> (jiffies + time) % JiffiesModulus]
    BY DEF SleepWaitable, time
  <2>2. jiffies + time \in Nat
    BY <1>2, <1>3, SchedulerAssumption DEF Jiffies
  <2>3. (jiffies + time) % JiffiesModulus \in Jiffies
    BY <2>2, ModInJiffies
  <2>4. jiffies + time < JiffiesModulus => (jiffies + time) % JiffiesModulus = jiffies + time
    <3>1. jiffies + time < JiffiesModulus => jiffies + time \in Jiffies
      BY <2>2, SchedulerAssumption DEF Jiffies
    <3>2. QED
      BY <3>1, ModIdentity
  <2>5. QED
    BY <2>1, <2>3, <2>4 DEF Waitable
<1> HIDE DEF w0
<1>5. s \in [Tasks -> State] /\ w \in [Tasks -> Waitable]
  BY <1>2, <1>4 DEF State
<1>6. left' \in [Tasks -> Nat]
  BY <1>1, <1>2, <1>3
<1>7. ASSUME NEW t \in Tasks, Asleep(t)
      PROVE  s[t] = "Waiting" /\ w[t] = m_waiting_for[t]
  BY <1>2, <1>7 DEF Asleep
<1>8. ASSUME NEW t \in Tasks, s[t] = "Waiting", w[t].kind = "sleep"
      PROVE  left'[t] = 0 \/ jiffies + left'[t] <= w[t].end
  <2>1. CASE t = Running
    <3>1. w[t] = w0 /\ left'[t] = IF jiffies + time < JiffiesModulus THEN time ELSE 0
      BY <1>1, <1>2, <2>1
    <3>2. jiffies \in Int /\ time \in Int
      BY <1>2, <1>3, SchedulerAssumption DEF Jiffies
    <3> HIDE DEF s, w
    <3>3. CASE jiffies + time < JiffiesModulus
      BY <1>4, <3>1, <3>2, <3>3
    <3>4. CASE ~(jiffies + time < JiffiesModulus)
      BY <3>1, <3>4
    <3>5. QED
      BY <3>3, <3>4
  <2>2. CASE t # Running
    BY <1>1, <1>2, <1>8, <2>2 DEF SleepInv, Asleep
  <2>3. QED
    BY <2>1, <2>2
<1>9. PICK next \in pick_next_task(m_tasks, m_running_task_index, s, w, jiffies, ioFinished) :
        /\ m_state' = [s EXCEPT ![m_tasks[next + 1]] = "Runnable"]
        /\ m_waiting_for' = w /\ jiffies' = jiffies
  BY <1>1 DEF schedule
<1> HIDE DEF s, w
<1>10. QED
  BY <1>2, <1>5, <1>6, <1>7, <1>8, <1>9, DecisionWakes
-----------------------------------------------------------------------------
(***************************************************************************)
(* Every step, with what it observes.                                      *)
(***************************************************************************)
\* Until the scheduler starts nothing has happened.
UntilStarted ==
  ~started =>
    m_tasks = InitialTasks /\ passed = [t \in Tasks |-> 0] /\ m_state = [t \in Tasks |-> "New"]

HistoryInv == PassedInv /\ SleepInv /\ UntilStarted

LEMMA StartKeeps ==
  ASSUME SchedulerInv, HistoryInv, start_scheduler, ObserveTime, ObservePassed
  PROVE  HistoryInv' /\ WakesRested
<1> DEFINE n == Len(m_tasks)
<1>1. /\ ~started /\ started' /\ m_tasks' = m_tasks
      /\ m_running_task_index' = m_running_task_index
      /\ m_waiting_for' = m_waiting_for /\ jiffies' = jiffies
      /\ m_state' = [m_state EXCEPT ![Running] = "Runnable"]
  BY DEF start_scheduler
<1>2. /\ passed = [t \in Tasks |-> 0] /\ m_state = [t \in Tasks |-> "New"]
      /\ m_tasks \in Seq(Tasks) /\ n \in Nat \ {0} /\ DOMAIN m_tasks = 1 .. n
      /\ m_running_task_index \in 0 .. n - 1 /\ Running \in Tasks /\ Running' = Running
      /\ n <= Len(InitialTasks)
      /\ left \in [Tasks -> Nat] /\ jiffies \in Jiffies /\ m_waiting_for \in [Tasks -> Waitable]
  BY <1>1 DEF HistoryInv, UntilStarted, PassedInv, SleepInv, SchedulerInv, TypeOK,
              TasksWellFormed, Running
<1>3. \A t \in Tasks : passed'[t] \in {0, 1}
  BY <1>2 DEF ObservePassed
<1>4. passed' \in [Tasks -> Nat] /\ passed'[Running'] = 0
  BY <1>2 DEF ObservePassed
<1>5. Bound' = Bound /\ Bound \in Int /\ n <= Bound
  BY <1>1, <1>2, BoundIsEnough DEF Bound, Exits
<1>6. ASSUME NEW p \in 1 .. n
      PROVE  passed'[m_tasks[p]] + Behind(p)' <= Bound'
  <2>1. Behind(p)' \in 0 .. n - 1
    BY <1>1, <1>2 DEF Behind
  <2>2. passed'[m_tasks[p]] \in {0, 1}
    BY <1>2, <1>3
  <2> HIDE DEF n
  <2>3. QED
    BY <1>2, <1>5, <2>1, <2>2
<1>7. PassedInv'
  BY <1>1, <1>2, <1>4, <1>6 DEF PassedInv
<1>8. SleepInv'
  <2>1. left' \in [Tasks -> Nat]
    BY <1>1, <1>2, TimePasses
  <2>2. \A t \in Tasks : ~Asleep(t)'
    BY <1>1, <1>2 DEF Asleep
  <2>3. QED
    BY <2>1, <2>2 DEF SleepInv
<1>9. WakesRested
  BY <1>2 DEF WakesRested, Live
<1>10. QED
  BY <1>1, <1>7, <1>8, <1>9 DEF HistoryInv, UntilStarted

LEMMA DecisionKeeps ==
  ASSUME SchedulerInv, HistoryInv, started, ObservePassed, ObserveTime,
         NEW s \in [Tasks -> State], NEW w \in [Tasks -> Waitable], NEW j \in Jiffies, NEW io,
         schedule(s, w, j, io), ioFinished' = io,
         \A t \in Tasks : Asleep(t) => s[t] = "Waiting" /\ w[t] = m_waiting_for[t],
         \A t \in Tasks : s[t] = "Waiting" /\ w[t].kind = "sleep" => Asleep(t)
  PROVE  HistoryInv' /\ WakesRested
<1>1. PassedInv'
  BY schedulePasses DEF HistoryInv
<1>2. PICK next \in pick_next_task(m_tasks, m_running_task_index, s, w, j, io) :
        /\ m_state' = [s EXCEPT ![m_tasks[next + 1]] = "Runnable"]
        /\ m_waiting_for' = w /\ jiffies' = j /\ started' = started
  BY DEF schedule
<1>3. m_tasks \in Seq(Tasks) /\ Len(m_tasks) > 0 /\ m_running_task_index \in Nat
  BY DEF SchedulerInv, TypeOK, TasksWellFormed
<1>4. SleepInv' /\ WakesRested
  BY <1>2, <1>3, TimeWakes DEF HistoryInv
<1>5. UntilStarted'
  BY <1>2 DEF UntilStarted
<1>6. QED
  BY <1>1, <1>4, <1>5 DEF HistoryInv

LEMMA ExitKeeps ==
  ASSUME SchedulerInv, HistoryInv, Exit, ObservePassed, ObserveTime
  PROVE  HistoryInv' /\ WakesRested
<1> DEFINE ts == Remove(m_tasks, m_running_task_index)
<1>1. PassedInv'
  BY ExitPasses DEF HistoryInv
<1>2. PICK next \in pick_next_task(ts, m_running_task_index, m_state, m_waiting_for, jiffies,
                                   ioFinished) :
        m_state' = [m_state EXCEPT ![ts[next + 1]] = "Runnable"]
  BY DEF Exit
<1>3. /\ m_waiting_for' = m_waiting_for /\ jiffies' = jiffies /\ started' = started /\ started
      /\ m_running_task_index + 1 # Len(m_tasks)
  BY DEF Exit, InSyscall, UserTasks, Running, SchedulerInv, TasksWellFormed
<1>4. /\ m_tasks \in Seq(Tasks) /\ m_running_task_index \in 0 .. Len(m_tasks) - 1
      /\ m_state \in [Tasks -> State] /\ m_waiting_for \in [Tasks -> Waitable]
      /\ jiffies \in Jiffies /\ Len(m_tasks) \in Nat
  BY DEF SchedulerInv, TypeOK
<1>5. ts \in Seq(Tasks) /\ Len(ts) > 0 /\ m_running_task_index \in Nat
  BY <1>3, <1>4, RemoveType
<1> HIDE DEF ts
<1>6. \A t \in Tasks :
        /\ Asleep(t) => m_state[t] = "Waiting"
        /\ m_state[t] = "Waiting" /\ m_waiting_for[t].kind = "sleep" => Asleep(t)
  BY DEF Asleep
<1>7. SleepInv' /\ WakesRested
  BY <1>2, <1>3, <1>4, <1>5, <1>6, TimeWakes DEF HistoryInv
<1>8. UntilStarted'
  BY <1>3 DEF UntilStarted
<1>9. QED
  BY <1>1, <1>7, <1>8 DEF HistoryInv

LEMMA MCNextKeeps ==
  ASSUME SchedulerInv, HistoryInv, MCNext
  PROVE  HistoryInv' /\ WakesRested
<1>1. /\ m_state \in [Tasks -> State] /\ m_waiting_for \in [Tasks -> Waitable]
      /\ jiffies \in Jiffies /\ Running \in Tasks
      /\ started => m_state[Running] = "Runnable"
  BY DEF SchedulerInv, TypeOK, Running, RunningTaskIsRunnable
<1>2. \A t \in Tasks :
        /\ Asleep(t) => m_state[t] = "Waiting"
        /\ m_state[t] = "Waiting" /\ m_waiting_for[t].kind = "sleep" => Asleep(t)
  BY DEF Asleep
<1>3. CASE start_scheduler /\ ObserveTime /\ ObservePassed
  BY <1>3, StartKeeps
<1>4. ASSUME NEW ticks \in TickSizes, TimerInterrupt(ticks), ObserveTime, ObservePassed
      PROVE  HistoryInv' /\ WakesRested
  <2>1. (jiffies + ticks) % JiffiesModulus \in Jiffies
    <3>1. jiffies + ticks \in Int
      BY <1>1, SchedulerAssumption DEF Jiffies
    <3>2. QED
      BY <3>1, ModInJiffies
  <2>2. /\ started
        /\ schedule(m_state, m_waiting_for, (jiffies + ticks) % JiffiesModulus, ioFinished')
    BY <1>4 DEF TimerInterrupt
  <2>3. \A io : ioFinished' = io /\ schedule(m_state, m_waiting_for,
                                            (jiffies + ticks) % JiffiesModulus, io)
                  => HistoryInv' /\ WakesRested
    BY <1>1, <1>2, <1>4, <2>1, <2>2, DecisionKeeps
  <2>4. QED
    BY <2>2, <2>3
<1>5. CASE Yield /\ ObserveTime /\ ObservePassed
  <2>1. started /\ schedule(m_state, m_waiting_for, jiffies, ioFinished) /\ UNCHANGED ioFinished
    BY <1>5 DEF Yield, InSyscall
  <2>2. QED
    BY <1>1, <1>2, <1>5, <2>1, DecisionKeeps
<1>6. ASSUME NEW secs \in SleepSecs, Sleep(secs), ObserveSleep(secs), ObservePassed
      PROVE  HistoryInv' /\ WakesRested
  <2> DEFINE s == [m_state EXCEPT ![Running] = "Waiting"]
             w == [m_waiting_for EXCEPT ![Running] = SleepWaitable(secs)]
  <2>1. started /\ schedule(s, w, jiffies, ioFinished) /\ UNCHANGED ioFinished
    BY <1>6 DEF Sleep, reschedule_while_waiting_for, InSyscall
  <2>2. s \in [Tasks -> State] /\ started' = started
    BY <1>1, <2>1 DEF State, schedule
  <2> HIDE DEF s, w
  <2>3. PassedInv'
    BY <1>6, <2>1, <2>2, schedulePasses DEF HistoryInv
  <2>4. SleepInv' /\ WakesRested
    BY <1>6, SleepWakes DEF HistoryInv
  <2>5. UntilStarted'
    BY <2>1, <2>2 DEF UntilStarted
  <2>6. QED
    BY <2>3, <2>4, <2>5 DEF HistoryInv
<1>7. CASE WaitForIo /\ ObserveTime /\ ObservePassed
  <2> DEFINE s == [m_state EXCEPT ![Running] = "Waiting"]
             w == [m_waiting_for EXCEPT ![Running] = IoWaitable]
  <2>1. started /\ schedule(s, w, jiffies, ioFinished) /\ UNCHANGED ioFinished
    BY <1>7 DEF WaitForIo, reschedule_while_waiting_for, InSyscall
  <2>2. IoWaitable \in Waitable
    BY SchedulerAssumption DEF IoWaitable, Waitable, Jiffies
  <2>3. s \in [Tasks -> State] /\ w \in [Tasks -> Waitable]
    BY <1>1, <2>2 DEF State
  <2>4. \A t \in Tasks :
          /\ Asleep(t) => s[t] = "Waiting" /\ w[t] = m_waiting_for[t]
          /\ s[t] = "Waiting" /\ w[t].kind = "sleep" => Asleep(t)
    BY <1>1, <2>1 DEF Asleep, IoWaitable
  <2> HIDE DEF s, w
  <2>5. QED
    BY <1>1, <1>7, <2>1, <2>3, <2>4, DecisionKeeps
<1>8. CASE Exit /\ ObserveTime /\ ObservePassed
  BY <1>8, ExitKeeps
<1>9. CASE IoStep /\ UNCHANGED <<passed, left>>
  <2>1. UNCHANGED schedVars /\ UNCHANGED <<passed, left>>
    BY <1>9 DEF IoStep
  <2>2. PassedInv'
    BY <2>1 DEF HistoryInv, PassedInv, Bound, Exits, Behind, Running, schedVars
  <2>3. SleepInv' /\ UntilStarted'
    BY <2>1 DEF HistoryInv, SleepInv, Asleep, UntilStarted, schedVars
  <2>4. WakesRested
    BY <2>1 DEF WakesRested, schedVars
  <2>5. QED
    BY <2>2, <2>3, <2>4 DEF HistoryInv
<1>10. QED
  BY <1>3, <1>4, <1>5, <1>6, <1>7, <1>8, <1>9 DEF MCNext

LEMMA HistoryInit == MCInit => HistoryInv
<1> SUFFICES ASSUME MCInit PROVE HistoryInv
  OBVIOUS
<1> DEFINE n == Len(m_tasks)
<1>1. /\ m_tasks = InitialTasks /\ m_running_task_index = 0
      /\ passed = [t \in Tasks |-> 0] /\ left = [t \in Tasks |-> 0]
      /\ m_state = [t \in Tasks |-> "New"]
  BY DEF MCInit, Init
<1>2. SchedulerInv
  BY InitEstablishes DEF MCInit
<1>3. /\ n \in Nat \ {0} /\ DOMAIN m_tasks = 1 .. n /\ Running \in Tasks
      /\ \A p \in 1 .. n : m_tasks[p] \in Tasks
  BY <1>2 DEF SchedulerInv, TypeOK, TasksWellFormed, Running
<1>4. Bound \in Int /\ n <= Bound
  BY <1>1, <1>2, <1>3, BoundIsEnough
<1>5. \A p \in 1 .. n : Behind(p) \in 0 .. n - 1
  BY <1>1, <1>3 DEF Behind
<1>6. PassedInv
  BY <1>1, <1>3, <1>4, <1>5 DEF PassedInv
<1>7. SleepInv
  BY <1>1 DEF SleepInv
<1>8. QED
  BY <1>1, <1>6, <1>7 DEF HistoryInv, UntilStarted

\* What is observed does not restrict the scheduler.
LEMMA HistoryOnlyObserves == [MCNext]_allVars => [Next]_vars
BY DEF MCNext, Next, Decision, allVars, IoStep, vars

LEMMA HistoryKept == MCSpec => [](SchedulerInv /\ HistoryInv)
<1>1. MCInit => SchedulerInv /\ HistoryInv
  BY InitEstablishes, HistoryInit DEF MCInit
<1>2. SchedulerInv /\ HistoryInv /\ [MCNext]_allVars => (SchedulerInv /\ HistoryInv)'
  <2>1. SUFFICES ASSUME SchedulerInv, HistoryInv, [MCNext]_allVars
                 PROVE  HistoryInv'
    BY HistoryOnlyObserves, NextPreserves
  <2>2. CASE UNCHANGED allVars
    BY <2>1, <2>2
    DEF allVars, vars, HistoryInv, PassedInv, Bound, Exits, Behind, Running, SleepInv, Asleep,
        UntilStarted
  <2>3. QED
    BY <2>1, <2>2, MCNextKeeps
<1>3. QED
  BY <1>1, <1>2, PTL DEF MCSpec

\* Nobody starves, for any number of tasks: a task that can run is passed over at most
\* once for every other task, and for every exit at most one round more, in which
\* pick_next_task has stepped over it.
THEOREM RoundRobin == MCSpec => []NoStarvation
<1>1. SchedulerInv /\ HistoryInv => NoStarvation
  <2>1. SUFFICES ASSUME SchedulerInv, HistoryInv, NEW t \in Live
                 PROVE  passed[t] <= Bound - 1
    BY Constants DEF NoStarvation, Bound, Exits, SchedulerInv, TypeOK
  <2> DEFINE n == Len(m_tasks)
  <2>2. PICK p \in 1 .. n : t = m_tasks[p]
    BY <2>1 DEF Live, SchedulerInv, TypeOK
  <2>3. /\ n \in Nat \ {0} /\ m_running_task_index \in 0 .. n - 1
        /\ m_tasks \in Seq(Tasks) /\ DOMAIN m_tasks = 1 .. n
    BY <2>1 DEF SchedulerInv, TypeOK, TasksWellFormed
  <2>4. Bound \in Int /\ n <= Bound
    BY <2>1, BoundIsEnough DEF HistoryInv, PassedInv
  <2>5. passed[t] \in Nat /\ passed[t] + Behind(p) <= Bound
    BY <2>1, <2>2, <2>3 DEF HistoryInv, PassedInv
  <2>6. CASE p - 1 = m_running_task_index
    <3>1. passed[t] = 0
      BY <2>1, <2>2, <2>3, <2>6 DEF HistoryInv, PassedInv, Running
    <3>2. QED
      BY <2>3, <2>4, <3>1
  <2>7. CASE p - 1 # m_running_task_index
    <3>1. Behind(p) \in 1 .. n
      BY <2>3, <2>7 DEF Behind
    <3>2. QED
      BY <2>3, <2>4, <2>5, <3>1
  <2>8. QED
    BY <2>6, <2>7
<1>2. QED
  BY <1>1, HistoryKept, PTL

\* A sleeping task is not given the CPU before its time has passed, although the scheduler
\* polls it whenever its turn comes and jiffies may go round meanwhile.
THEOREM SleepsAreWhole == MCSpec => SleepIsNotCutShort
<1>1. SchedulerInv /\ HistoryInv /\ [MCNext]_allVars => [WakesRested]_allVars
  BY MCNextKeeps
<1>2. QED
  BY <1>1, HistoryKept, PTL DEF MCSpec, SleepIsNotCutShort, WakesRested
=============================================================================
