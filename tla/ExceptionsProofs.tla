-------------------------- MODULE ExceptionsProofs --------------------------
(***************************************************************************)
(* Proofs about module Exceptions: for any number of tasks, whatever the   *)
(* scheduler picks and wherever interrupts come.                           *)
(*                                                                         *)
(* The inductive invariant says for every task what its frames and its     *)
(* saved registers are, as a function of the place at which it is or goes  *)
(* on.  A step changes the running task only, or is a switch, so that all  *)
(* that is left to show is about one task or two.                          *)
(***************************************************************************)
EXTENDS Exceptions, SequenceTheorems, TLAPS

InUser == State("EL0", FALSE)
InKernel == State("EL1", FALSE)
InKernelMasked == State("EL1", TRUE)

Pcs == UserPcs \cup KernelPcs
States == [mode : {"EL0", "EL1"}, masked : BOOLEAN]
X0s == {"Zero", "Own", "Kernel", "Result", "Error"}
Lrs == UserLrs \cup {NoLr, "stale"}
FrameSet == [x0 : X0s, lr : Lrs, elr : Pcs, spsr : States]
Cpu == [pc : Pcs, mode : {"EL0", "EL1"}, masked : BOOLEAN, x0 : X0s, lr : Lrs,
        sp_el0 : Tasks, elr : Pcs, spsr : States]
Context == [pc : UserPcs, lr : Lrs, x0 : X0s]

Types ==
  /\ cpu \in Cpu
  /\ registers \in [Tasks -> [cpsr : States, pc : Pcs, user_sp : Tasks]]
  /\ stack \in [Tasks -> Seq(FrameSet)]
  /\ slot \in [Tasks -> Lrs]
  /\ user \in [Users -> Context]
  /\ running \in alive /\ alive \subseteq Tasks /\ Kernels \subseteq alive
  /\ torn \subseteq Users

\* The frames of a user task in the kernel: the first leads back to its user code, and
\* the second, if there is one, to the call it makes.
LeadsBack(t) ==
  /\ stack[t][1].elr = user[t].pc /\ stack[t][1].spsr = InUser
  /\ stack[t][1].x0 = user[t].x0
  /\ t \in lost \/ stack[t][1].lr = user[t].lr
IsNested(t) == stack[t][2].elr \in {"Call", "Restore"} /\ stack[t][2].spsr = InKernel
Called(t) ==
  \/ Len(stack[t]) = 1 /\ LeadsBack(t)
  \/ Len(stack[t]) = 2 /\ LeadsBack(t) /\ IsNested(t)

UserRuns(t) ==
  /\ cpu.sp_el0 = t
  /\ \/ /\ cpu.pc = user[t].pc /\ cpu.mode = "EL0" /\ ~cpu.masked
        /\ cpu.x0 = user[t].x0 /\ (t \in lost \/ cpu.lr = user[t].lr)
        /\ Len(stack[t]) = 0
     \/ /\ cpu.mode = "EL1" /\ Called(t)
        /\ \/ cpu.pc \in {"Entered", "Disabled", "Halt"} /\ cpu.masked /\ Len(stack[t]) = 1
           \/ cpu.pc = "Call" /\ ~cpu.masked /\ Len(stack[t]) = 1
           \/ cpu.pc = "Irq" /\ cpu.masked
           \/ cpu.pc = "Restore" /\ (Len(stack[t]) = 2 => cpu.masked)
           \/ /\ cpu.pc = "RestoreSpsr" /\ cpu.elr = Top(t).elr
              /\ Len(stack[t]) = 2 => cpu.masked
           \/ /\ cpu.pc = "Return" /\ Len(stack[t]) = 1
              /\ cpu.elr = user[t].pc /\ cpu.spsr = InUser
           \/ /\ cpu.pc = "Return" /\ Len(stack[t]) = 2 /\ cpu.masked
              /\ cpu.elr = stack[t][2].elr /\ cpu.spsr = InKernel

UserSleeps(t) ==
  \/ /\ registers[t] = NewRegisters(t) /\ Len(stack[t]) = 0
     /\ user[t] = [pc |-> NewRegisters(t).pc, lr |-> NoLr, x0 |-> "Zero"]
  \/ /\ registers[t].user_sp = t /\ registers[t].cpsr = InKernelMasked /\ Called(t)
     /\ \/ registers[t].pc = "Restore"
        \/ registers[t].pc = "Disabled" /\ Len(stack[t]) = 1

\* Where a torn task with so many frames returns to: the way out of a call, with the
\* frame of the call popped or not, and in the kernel or at EL0.
TornState(t, n, elr, spsr) ==
  \/ elr = "Return" /\ spsr = InKernel
  \/ elr = "RestoreSpsr" /\ spsr = InKernel /\ n = 2 /\ stack[t][1].spsr = InUser
  \/ elr = "RestoreSpsr" /\ spsr = InUser /\ n = 1
TornFrame(t) ==
  /\ Len(stack[t]) \in 1 .. 2
  /\ TornState(t, Len(stack[t]), Top(t).elr, Top(t).spsr)
TornRuns(t) ==
  \/ /\ cpu.mode = "EL1"
     /\ \/ /\ cpu.pc = "Return" /\ TornState(t, Len(stack[t]), cpu.elr, cpu.spsr)
           /\ Len(stack[t]) \in 0 .. 2 /\ (Len(stack[t]) = 2 => cpu.masked)
        \/ cpu.pc \in {"Irq", "Restore"} /\ cpu.masked /\ TornFrame(t)
        \/ cpu.pc = "RestoreSpsr" /\ cpu.masked /\ TornFrame(t) /\ cpu.elr = Top(t).elr
        \/ /\ cpu.pc = "RestoreSpsr" /\ cpu.elr = "RestoreSpsr"
           /\ Len(stack[t]) = 1 /\ stack[t][1].spsr = InUser
        \/ cpu.pc = "Halt" /\ cpu.masked
  \/ cpu.mode = "EL0" /\ cpu.pc = "RestoreSpsr" /\ ~cpu.masked /\ Len(stack[t]) = 0
TornSleeps(t) ==
  registers[t].pc = "Restore" /\ registers[t].cpsr = InKernelMasked /\ TornFrame(t)

\* A kernel task is interrupted where it spins.
SpinFrame(t) ==
  Len(stack[t]) = 1 /\ stack[t][1].elr = "Spin" /\ stack[t][1].spsr = InKernel
KernelRuns(t) ==
  /\ cpu.mode = "EL1"
  /\ \/ cpu.pc = "Spin" /\ Len(stack[t]) = 0
     \/ cpu.pc \in {"Irq", "Restore"} /\ cpu.masked /\ SpinFrame(t)
     \/ cpu.pc = "RestoreSpsr" /\ cpu.masked /\ SpinFrame(t) /\ cpu.elr = "Spin"
     \/ /\ cpu.pc = "Return" /\ cpu.masked /\ Len(stack[t]) = 1
        /\ cpu.elr = "Spin" /\ cpu.spsr = InKernel
KernelSleeps(t) ==
  \/ registers[t] = NewRegisters(t) /\ Len(stack[t]) = 0
  \/ registers[t].pc = "Restore" /\ registers[t].cpsr = InKernelMasked /\ SpinFrame(t)

Runs(t) ==
  /\ t \in Users \ torn => UserRuns(t)
  /\ t \in torn => TornRuns(t)
  /\ t \in Kernels => KernelRuns(t)
Sleeps(t) ==
  /\ t \in Users \ torn => UserSleeps(t)
  /\ t \in torn => TornSleeps(t)
  /\ t \in Kernels => KernelSleeps(t)

EInv == Types /\ Runs(running) /\ \A t \in alive \ {running} : Sleeps(t)
-----------------------------------------------------------------------------
(***************************************************************************)
(* Places, states and frames.                                              *)
(***************************************************************************)
LEMMA PlacesDiffer ==
  /\ \A p \in UserPcs : p \notin KernelPcs
  /\ \A t \in Tasks : t \in Users \/ t \in Kernels
  /\ \A t \in Users : t \notin Kernels
BY ExceptionsAssumption DEF ExceptionsAssumption, Tasks

LEMMA StatesAreStates ==
  /\ InUser \in States /\ InKernel \in States /\ InKernelMasked \in States
  /\ InUser.mode = "EL0" /\ InUser.masked = FALSE
  /\ InKernel.mode = "EL1" /\ InKernel.masked = FALSE
  /\ InKernelMasked.mode = "EL1" /\ InKernelMasked.masked = TRUE
  /\ State(cpu.mode, cpu.masked).mode = cpu.mode
  /\ State(cpu.mode, cpu.masked).masked = cpu.masked
BY DEF InUser, InKernel, InKernelMasked, State, States

\* What a task starts with.
LEMMA NewRegistersAre ==
  ASSUME NEW t \in Tasks
  PROVE  /\ NewRegisters(t) \in [cpsr : States, pc : Pcs, user_sp : Tasks]
         /\ NewRegisters(t).user_sp = t
         /\ t \in Users => NewRegisters(t).pc \in UserPcs /\ NewRegisters(t).cpsr = InUser
         /\ t \in Kernels => NewRegisters(t).pc = "Spin" /\ NewRegisters(t).cpsr = InKernel
<1>1. (CHOOSE p \in UserPcs : TRUE) \in UserPcs
  BY ExceptionsAssumption DEF ExceptionsAssumption
<1>2. CASE t \in Users
  BY <1>1, <1>2, PlacesDiffer, StatesAreStates DEF NewRegisters, InUser, Pcs
<1>3. CASE t \in Kernels
  <2>1. t \notin Users /\ "Spin" \in Pcs
    BY <1>3, PlacesDiffer DEF Pcs, KernelPcs
  <2>2. QED
    BY <1>3, <2>1, StatesAreStates DEF NewRegisters, InKernel
<1>4. QED
  BY <1>2, <1>3, PlacesDiffer

LEMMA PushedFrame ==
  ASSUME Types, NEW frame \in FrameSet, Push(running, frame)
  PROVE  /\ stack' \in [Tasks -> Seq(FrameSet)]
         /\ Len(stack[running]) \in Nat /\ Len(stack'[running]) = Len(stack[running]) + 1
         /\ stack'[running][Len(stack[running]) + 1] = frame
         /\ \A i \in 1 .. Len(stack[running]) : stack'[running][i] = stack[running][i]
         /\ \A t \in Tasks : t # running => stack'[t] = stack[t]
<1>1. running \in Tasks /\ stack[running] \in Seq(FrameSet)
  BY DEF Types
<1>2. stack'[running] = Append(stack[running], frame)
  BY <1>1 DEF Types, Push
<1>3. Append(stack[running], frame) \in Seq(FrameSet)
  BY <1>1
<1>4. stack' \in [Tasks -> Seq(FrameSet)]
  BY <1>3 DEF Types, Push
<1>5. \A t \in Tasks : t # running => stack'[t] = stack[t]
  BY DEF Types, Push
<1> HIDE DEF FrameSet
<1>6. QED
  BY <1>1, <1>2, <1>4, <1>5

LEMMA PoppedFrame ==
  ASSUME Types
  PROVE  /\ Popped(running) \in Seq(FrameSet)
         /\ Len(stack[running]) \in Nat
         /\ Len(stack[running]) = 0 => Len(Popped(running)) = 0
         /\ Len(stack[running]) > 0 =>
              /\ stack[running] # <<>>
              /\ Len(Popped(running)) = Len(stack[running]) - 1
              /\ \A i \in 1 .. Len(stack[running]) - 1 : Popped(running)[i] = stack[running][i]
<1>1. stack[running] \in Seq(FrameSet)
  BY DEF Types
<1> DEFINE s == stack[running]
<1> HIDE DEF s, FrameSet
<1>2. s \in Seq(FrameSet)
  BY <1>1 DEF s
<1>3. Len(s) = 0 => s = <<>>
  BY <1>2
<1>4. ASSUME Len(s) > 0
      PROVE  /\ SubSeq(s, 1, Len(s) - 1) \in Seq(FrameSet)
             /\ Len(SubSeq(s, 1, Len(s) - 1)) = Len(s) - 1
             /\ \A i \in 1 .. Len(s) - 1 : SubSeq(s, 1, Len(s) - 1)[i] = s[i]
  <2> DEFINE n == Len(s) - 1
  <2>1. 1 \in Int /\ n \in Int /\ n >= 0 /\ n - 1 + 1 = n
    BY <1>2, <1>4
  <2>2. \A i \in 1 .. n : s[i] \in FrameSet
    BY <1>2
  <2> HIDE DEF n
  <2>3. /\ SubSeq(s, 1, n) \in Seq(FrameSet)
        /\ Len(SubSeq(s, 1, n)) = IF 1 <= n THEN n - 1 + 1 ELSE 0
        /\ \A i \in 1 .. n - 1 + 1 : SubSeq(s, 1, n)[i] = s[1 + i - 1]
    BY <2>1, <2>2, SubSeqProperties
  <2>4. Len(SubSeq(s, 1, n)) = n
    BY <2>1, <2>3
  <2>5. \A i \in 1 .. n : SubSeq(s, 1, n)[i] = s[i]
    BY <2>1, <2>3
  <2>6. QED
    BY <2>3, <2>4, <2>5 DEF n
<1>5. Len(s) > 0 => s # <<>>
  BY <1>2
<1>6. <<>> \in Seq(FrameSet)
  OBVIOUS
<1>7. QED
  BY <1>2, <1>3, <1>4, <1>5, <1>6 DEF Popped, s

\* The frames in memory are frames.
LEMMA FramesAreFrames ==
  ASSUME Types, NEW t \in Tasks, NEW i \in 1 .. Len(stack[t])
  PROVE  stack[t][i] \in FrameSet
<1>1. stack[t] \in Seq(FrameSet)
  BY DEF Types
<1> HIDE DEF FrameSet
<1>2. QED
  BY <1>1
-----------------------------------------------------------------------------
\* Nothing is said of a task that does not run but what is in its memory.
LEMMA SleepsOn ==
  ASSUME NEW t, Sleeps(t), registers'[t] = registers[t], stack'[t] = stack[t],
         t \in Users => user'[t] = user[t], t \in lost' <=> t \in lost, t \in torn' <=> t \in torn
  PROVE  Sleeps(t)'
BY DEF Sleeps, UserSleeps, TornSleeps, KernelSleeps, Called, LeadsBack, IsNested,
       TornFrame, TornState, SpinFrame, Top

\* The same for a step that leaves running as it is.
LEMMA OthersSleep ==
  ASSUME EInv, running' = running, alive' = alive,
         \A t \in Tasks \ {running} :
           /\ registers'[t] = registers[t] /\ stack'[t] = stack[t]
           /\ t \in Users => user'[t] = user[t]
           /\ t \in lost' <=> t \in lost
           /\ t \in torn' <=> t \in torn
  PROVE  \A t \in alive' \ {running'} : Sleeps(t)'
<1>1. SUFFICES ASSUME NEW t \in alive \ {running}
               PROVE  Sleeps(t)'
  OBVIOUS
<1>2. t \in Tasks \ {running} /\ Sleeps(t)
  BY DEF EInv, Types
<1>3. QED
  BY <1>2, SleepsOn
-----------------------------------------------------------------------------
(***************************************************************************)
(* What the place of the running task says of it.                          *)
(***************************************************************************)
LEMMA UserCodeIsNoKernel ==
  ASSUME EInv, NEW t \in Users
  PROVE  user[t].pc \in UserPcs /\ user[t].pc \notin KernelPcs
BY PlacesDiffer DEF EInv, Types, Context

LEMMA InUserCode ==
  ASSUME EInv, cpu.pc \in UserPcs
  PROVE  /\ running \in Users \ torn
         /\ cpu.mode = "EL0" /\ cpu.sp_el0 = running /\ ~cpu.masked
         /\ cpu.pc = user[running].pc /\ cpu.x0 = user[running].x0
         /\ running \in lost \/ cpu.lr = user[running].lr
         /\ Len(stack[running]) = 0
<1>1. running \in Tasks /\ Runs(running) /\ torn \subseteq Users
  BY DEF EInv, Types
<1>2. cpu.pc \notin KernelPcs
  BY PlacesDiffer
<1>3. running \notin torn /\ running \notin Kernels
  BY <1>1, <1>2 DEF Runs, TornRuns, KernelRuns, KernelPcs
<1>4. running \in Users \ torn
  BY <1>1, <1>3, PlacesDiffer
<1>5. QED
  BY <1>1, <1>2, <1>4 DEF Runs, UserRuns, KernelPcs

\* At EL0 there is user code, or a torn task.
LEMMA InEL0 ==
  ASSUME EInv, cpu.mode = "EL0"
  PROVE  /\ running \in Users /\ ~cpu.masked /\ Len(stack[running]) = 0
         /\ \/ running \notin torn /\ cpu.pc \in UserPcs
            \/ running \in torn /\ cpu.pc = "RestoreSpsr"
<1>1. running \in Tasks /\ Runs(running) /\ torn \subseteq Users
  BY DEF EInv, Types
<1>2. CASE running \in Users \ torn
  BY <1>1, <1>2, UserCodeIsNoKernel DEF Runs, UserRuns
<1>3. CASE running \in torn
  BY <1>1, <1>3 DEF Runs, TornRuns
<1>4. CASE running \in Kernels
  BY <1>1, <1>4 DEF Runs, KernelRuns
<1>5. QED
  BY <1>1, <1>2, <1>3, <1>4, PlacesDiffer

LEMMA InCall ==
  ASSUME EInv, cpu.pc \in {"Entered", "Call", "Disabled"}
  PROVE  /\ running \in Users \ torn
         /\ cpu.sp_el0 = running /\ cpu.mode = "EL1"
         /\ cpu.pc = "Disabled" => cpu.masked
         /\ Len(stack[running]) = 1 /\ LeadsBack(running)
<1>1. running \in Tasks /\ Runs(running)
  BY DEF EInv, Types
<1>2. running \notin torn /\ running \notin Kernels
  BY <1>1 DEF Runs, TornRuns, KernelRuns
<1>3. running \in Users \ torn
  BY <1>1, <1>2, PlacesDiffer
<1>4. user[running].pc \notin {"Entered", "Call", "Disabled"}
  BY <1>3, UserCodeIsNoKernel DEF KernelPcs
<1>5. QED
  BY <1>1, <1>3, <1>4 DEF Runs, UserRuns, Called

\* Interrupts are handled and returned from in the three kinds of tasks.
LEMMA InHandler ==
  ASSUME EInv, cpu.pc \in {"Irq", "Restore"}
  PROVE  /\ cpu.mode = "EL1"
         /\ cpu.pc = "Irq" => cpu.masked
         /\ running \in Users \ torn =>
              /\ cpu.sp_el0 = running /\ Called(running)
              /\ Len(stack[running]) = 2 => cpu.masked
         /\ running \in torn => cpu.masked /\ TornFrame(running)
         /\ running \in Kernels => cpu.masked /\ SpinFrame(running)
<1>1. running \in Tasks /\ Runs(running) /\ torn \subseteq Users
  BY DEF EInv, Types
<1>2. CASE running \in Users \ torn
  <2>1. user[running].pc \notin {"Irq", "Restore"}
    BY <1>2, UserCodeIsNoKernel DEF KernelPcs
  <2>2. running \notin Kernels
    BY <1>2, PlacesDiffer
  <2>3. QED
    BY <1>1, <1>2, <2>1, <2>2 DEF Runs, UserRuns
<1>3. CASE running \in torn
  BY <1>1, <1>3, PlacesDiffer DEF Runs, TornRuns
<1>4. CASE running \in Kernels
  BY <1>1, <1>4, PlacesDiffer DEF Runs, KernelRuns
<1>5. QED
  BY <1>1, <1>2, <1>3, <1>4, PlacesDiffer

LEMMA InReturn ==
  ASSUME EInv, cpu.pc = "Return"
  PROVE  /\ cpu.mode = "EL1"
         /\ running \in Users \ torn =>
              /\ cpu.sp_el0 = running /\ Called(running)
              /\ Len(stack[running]) = 1 => cpu.elr = user[running].pc /\ cpu.spsr = InUser
              /\ Len(stack[running]) = 2 => /\ cpu.masked /\ cpu.elr = stack[running][2].elr
                                            /\ cpu.spsr = InKernel
         /\ running \in torn =>
              /\ TornState(running, Len(stack[running]), cpu.elr, cpu.spsr)
              /\ Len(stack[running]) \in 0 .. 2
              /\ Len(stack[running]) = 2 => cpu.masked
         /\ running \in Kernels => /\ cpu.masked /\ Len(stack[running]) = 1
                                   /\ cpu.elr = "Spin" /\ cpu.spsr = InKernel
<1>1. running \in Tasks /\ Runs(running) /\ torn \subseteq Users
  BY DEF EInv, Types
<1>2. CASE running \in Users \ torn
  <2>1. user[running].pc # "Return"
    BY <1>2, UserCodeIsNoKernel DEF KernelPcs
  <2>2. running \notin Kernels
    BY <1>2, PlacesDiffer
  <2>3. QED
    BY <1>1, <1>2, <2>1, <2>2 DEF Runs, UserRuns
<1>3. CASE running \in torn
  BY <1>1, <1>3, PlacesDiffer DEF Runs, TornRuns
<1>4. CASE running \in Kernels
  BY <1>1, <1>4, PlacesDiffer DEF Runs, KernelRuns
<1>5. QED
  BY <1>1, <1>2, <1>3, <1>4, PlacesDiffer

LEMMA InRestoreSpsr ==
  ASSUME EInv, cpu.pc = "RestoreSpsr", cpu.mode = "EL1"
  PROVE  /\ running \in Users \ torn =>
              /\ cpu.sp_el0 = running /\ Called(running)
              /\ cpu.elr = Top(running).elr
              /\ Len(stack[running]) = 2 => cpu.masked
         /\ running \in torn =>
              \/ cpu.masked /\ TornFrame(running) /\ cpu.elr = Top(running).elr
              \/ /\ cpu.elr = "RestoreSpsr"
                 /\ Len(stack[running]) = 1 /\ stack[running][1].spsr = InUser
         /\ running \in Kernels => cpu.masked /\ SpinFrame(running) /\ cpu.elr = "Spin"
<1>1. running \in Tasks /\ Runs(running) /\ torn \subseteq Users
  BY DEF EInv, Types
<1>2. CASE running \in Users \ torn
  <2>1. user[running].pc # "RestoreSpsr"
    BY <1>2, UserCodeIsNoKernel DEF KernelPcs
  <2>2. running \notin Kernels
    BY <1>2, PlacesDiffer
  <2>3. QED
    BY <1>1, <1>2, <2>1, <2>2 DEF Runs, UserRuns
<1>3. CASE running \in torn
  BY <1>1, <1>3, PlacesDiffer DEF Runs, TornRuns
<1>4. CASE running \in Kernels
  BY <1>1, <1>4, PlacesDiffer DEF Runs, KernelRuns
<1>5. QED
  BY <1>1, <1>2, <1>3, <1>4, PlacesDiffer
-----------------------------------------------------------------------------
(***************************************************************************)
(* Entering the kernel.                                                    *)
(***************************************************************************)
LEMMA TakenIs ==
  ASSUME Types, NEW place \in KernelPcs, Taken(place)
  PROVE  /\ cpu' \in Cpu
         /\ cpu'.pc = place /\ cpu'.mode = "EL1" /\ cpu'.masked /\ cpu'.sp_el0 = cpu.sp_el0
<1>1. State(cpu.mode, cpu.masked) \in States /\ cpu.pc \in Pcs /\ place \in Pcs
  BY DEF Types, Cpu, State, States, Pcs
<1>2. NoLr \in Lrs /\ "Kernel" \in X0s
  BY DEF Lrs, X0s
<1>3. cpu \in Cpu
  BY DEF Types
<1>4. QED
  BY <1>1, <1>2, <1>3 DEF Taken, Cpu

LEMMA FrameIs ==
  ASSUME Types, NEW lr \in Lrs
  PROVE  /\ Frame(lr) \in FrameSet
         /\ Frame(lr).elr = cpu.pc /\ Frame(lr).spsr = State(cpu.mode, cpu.masked)
         /\ Frame(lr).x0 = cpu.x0 /\ Frame(lr).lr = lr
<1>1. State(cpu.mode, cpu.masked) \in States
  BY DEF Types, Cpu, State, States
<1>2. cpu.x0 \in X0s /\ cpu.pc \in Pcs
  BY DEF Types, Cpu
<1>3. QED
  BY <1>1, <1>2 DEF Frame, FrameSet

\* From user code the frame is the first.
LEMMA EnteringPreserves ==
  ASSUME EInv, cpu.pc \in UserPcs, NEW place \in {"Entered", "Halt", "Irq"}, Taken(place),
         NEW lr \in Lrs, Push(running, Frame(lr)), slot' \in [Tasks -> Lrs],
         running \in lost' \/ (running \notin lost /\ lr = user[running].lr),
         \A t \in Tasks \ {running} : t \in lost' <=> t \in lost,
         UNCHANGED <<running, alive, registers, user, torn>>
  PROVE  EInv'
<1>1. Types /\ running \in Tasks
  BY DEF EInv, Types
<1>2. /\ cpu' \in Cpu /\ cpu'.pc = place /\ cpu'.mode = "EL1" /\ cpu'.masked
      /\ cpu'.sp_el0 = running
  BY <1>1, TakenIs, InUserCode DEF KernelPcs
<1>3. State(cpu.mode, cpu.masked) = InUser
  <2>1. cpu.masked = FALSE /\ cpu.mode = "EL0"
    BY <1>1, InUserCode DEF Types, Cpu
  <2>2. QED
    BY <2>1 DEF InUser
<1>4. Frame(lr) \in FrameSet
  BY <1>1, FrameIs
<1>5. /\ stack' \in [Tasks -> Seq(FrameSet)]
      /\ Len(stack'[running]) = 1 /\ stack'[running][1] = Frame(lr)
      /\ \A t \in Tasks : t # running => stack'[t] = stack[t]
  <2>1. Len(stack[running]) = 0
    BY InUserCode
  <2>2. /\ stack' \in [Tasks -> Seq(FrameSet)]
        /\ Len(stack'[running]) = Len(stack[running]) + 1
        /\ stack'[running][Len(stack[running]) + 1] = Frame(lr)
        /\ \A t \in Tasks : t # running => stack'[t] = stack[t]
    BY <1>1, <1>4, PushedFrame
  <2>3. QED
    BY <2>1, <2>2
<1>6. Types'
  BY <1>1, <1>2, <1>5 DEF Types
<1>7. LeadsBack(running)'
  BY <1>1, <1>3, <1>5, FrameIs, InUserCode DEF LeadsBack
<1>8. Runs(running)'
  <2>1. running \in Users \ torn /\ running \notin Kernels
    BY InUserCode, PlacesDiffer
  <2>2. UserRuns(running)'
    BY <1>2, <1>5, <1>7 DEF UserRuns, Called
  <2>3. QED
    BY <2>1, <2>2 DEF Runs
<1>9. \A t \in alive' \ {running'} : Sleeps(t)'
  BY <1>5, OthersSleep
<1>10. QED
  BY <1>6, <1>8, <1>9 DEF EInv

\* The same for a torn task at EL0.
LEMMA TornEnteringPreserves ==
  ASSUME EInv, cpu.mode = "EL0", cpu.pc \notin UserPcs, NEW place \in {"Halt", "Irq"},
         Taken(place), NEW lr \in Lrs, Push(running, Frame(lr)), slot' \in [Tasks -> Lrs],
         \A t \in Tasks \ {running} : t \in lost' <=> t \in lost,
         UNCHANGED <<running, alive, registers, user, torn>>
  PROVE  EInv'
<1>1. Types /\ running \in Tasks
  BY DEF EInv, Types
<1>2. /\ cpu' \in Cpu /\ cpu'.pc = place /\ cpu'.mode = "EL1" /\ cpu'.masked
  BY <1>1, TakenIs DEF KernelPcs
<1>3. /\ running \in Users /\ running \in torn /\ ~cpu.masked /\ Len(stack[running]) = 0
      /\ cpu.pc = "RestoreSpsr"
  BY InEL0
<1>4. State(cpu.mode, cpu.masked) = InUser
  <2>1. cpu.masked = FALSE
    BY <1>1, <1>3 DEF Types, Cpu
  <2>2. QED
    BY <2>1 DEF InUser
<1>5. /\ Frame(lr) \in FrameSet
      /\ Frame(lr).elr = "RestoreSpsr" /\ Frame(lr).spsr = InUser
  BY <1>1, <1>3, <1>4, FrameIs
<1>6. /\ stack' \in [Tasks -> Seq(FrameSet)]
      /\ Len(stack'[running]) = 1 /\ stack'[running][1] = Frame(lr)
      /\ \A t \in Tasks : t # running => stack'[t] = stack[t]
  <2>1. /\ stack' \in [Tasks -> Seq(FrameSet)]
        /\ Len(stack'[running]) = Len(stack[running]) + 1
        /\ stack'[running][Len(stack[running]) + 1] = Frame(lr)
        /\ \A t \in Tasks : t # running => stack'[t] = stack[t]
    BY <1>1, <1>5, PushedFrame
  <2>2. QED
    BY <1>3, <2>1
<1>7. Types'
  BY <1>1, <1>2, <1>6 DEF Types
<1>8. TornFrame(running)'
  BY <1>5, <1>6 DEF TornFrame, TornState, Top
<1>9. Runs(running)'
  <2>1. TornRuns(running)'
    BY <1>2, <1>8 DEF TornRuns
  <2>2. QED
    BY <1>3, <2>1, PlacesDiffer DEF Runs
<1>10. \A t \in alive' \ {running'} : Sleeps(t)'
  BY <1>6, OthersSleep
<1>11. QED
  BY <1>7, <1>9, <1>10 DEF EInv

LEMMA SvcPreserves ==
  ASSUME EInv, Svc
  PROVE  EInv'
<1>1. cpu.lr \in Lrs /\ slot' \in [Tasks -> Lrs]
  BY DEF EInv, Types, Cpu, Svc
<1>2. cpu.pc \in UserPcs /\ Taken("Entered") /\ Push(running, Frame(cpu.lr))
  BY DEF Svc
<1>3. UNCHANGED <<running, alive, registers, user, lost, torn>>
  BY DEF Svc
<1>4. running \in lost' \/ (running \notin lost /\ cpu.lr = user[running].lr)
  BY <1>2, <1>3, InUserCode
<1>5. QED
  BY <1>1, <1>2, <1>3, <1>4, EnteringPreserves

LEMMA FaultPreserves ==
  ASSUME EInv, Fault
  PROVE  EInv'
<1>1. cpu.lr \in Lrs /\ slot' \in [Tasks -> Lrs]
  BY DEF EInv, Types, Cpu, Fault
<1>2. cpu.mode = "EL0" /\ Taken("Halt") /\ Push(running, Frame(cpu.lr))
  BY DEF Fault
<1>3. UNCHANGED <<running, alive, registers, user, lost, torn>>
  BY DEF Fault
<1>4. CASE cpu.pc \in UserPcs
  <2>1. running \in lost' \/ (running \notin lost /\ cpu.lr = user[running].lr)
    BY <1>3, <1>4, InUserCode
  <2>2. QED
    BY <1>1, <1>2, <1>3, <1>4, <2>1, EnteringPreserves
<1>5. CASE cpu.pc \notin UserPcs
  BY <1>1, <1>2, <1>3, <1>5, TornEnteringPreserves
<1>6. QED
  BY <1>4, <1>5

LEMMA IrqFromUserPreserves ==
  ASSUME EInv, IrqFromUser
  PROVE  EInv'
<1>1. slot[running] \in Lrs /\ slot' \in [Tasks -> Lrs]
  BY DEF EInv, Types, IrqFromUser
<1>2. cpu.mode = "EL0" /\ Taken("Irq") /\ Push(running, Frame(slot[running]))
  BY DEF IrqFromUser
<1>3. /\ UNCHANGED <<running, alive, registers, user, torn>>
      /\ lost' = lost \cup {running}
  BY DEF IrqFromUser
<1>4. CASE cpu.pc \in UserPcs
  BY <1>1, <1>2, <1>3, <1>4, EnteringPreserves
<1>5. CASE cpu.pc \notin UserPcs
  BY <1>1, <1>2, <1>3, <1>5, TornEnteringPreserves
<1>6. QED
  BY <1>4, <1>5

\* From the kernel: a call is interrupted in its code or on its way out.
LEMMA IrqFromKernelPreserves ==
  ASSUME EInv, IrqFromKernel
  PROVE  EInv'
<1>1. Types /\ running \in Tasks /\ torn \subseteq Users /\ cpu.lr \in Lrs
  BY DEF EInv, Types, Cpu
<1>2. /\ cpu.mode = "EL1" /\ ~cpu.masked /\ Taken("Irq") /\ Push(running, Frame(cpu.lr))
      /\ torn' = IF cpu.pc \in {"RestoreSpsr", "Return"} THEN torn \cup {running} ELSE torn
      /\ UNCHANGED <<running, alive, registers, slot, user, lost>>
  BY DEF IrqFromKernel, KernelFrame
<1>3. /\ cpu' \in Cpu /\ cpu'.pc = "Irq" /\ cpu'.mode = "EL1" /\ cpu'.masked
      /\ cpu'.sp_el0 = cpu.sp_el0
  BY <1>1, <1>2, TakenIs DEF KernelPcs
<1>4. State(cpu.mode, cpu.masked) = InKernel
  <2>1. cpu.masked = FALSE
    BY <1>1, <1>2 DEF Types, Cpu
  <2>2. QED
    BY <1>2, <2>1 DEF InKernel
<1>5. /\ Frame(cpu.lr) \in FrameSet
      /\ Frame(cpu.lr).elr = cpu.pc /\ Frame(cpu.lr).spsr = InKernel
  BY <1>1, <1>4, FrameIs
<1> DEFINE n == Len(stack[running])
<1>6. /\ stack' \in [Tasks -> Seq(FrameSet)]
      /\ n \in Nat /\ Len(stack'[running]) = n + 1
      /\ stack'[running][n + 1] = Frame(cpu.lr)
      /\ \A i \in 1 .. n : stack'[running][i] = stack[running][i]
      /\ \A t \in Tasks : t # running => stack'[t] = stack[t]
  BY <1>1, <1>2, <1>5, PushedFrame
<1>7. running \in torn' => running \in Users
  <2>1. CASE cpu.pc \in {"RestoreSpsr", "Return"}
    <3>1. running \notin Kernels
      BY <1>2, <2>1, InReturn, InRestoreSpsr
    <3>2. QED
      BY <1>1, <3>1, PlacesDiffer
  <2>2. CASE cpu.pc \notin {"RestoreSpsr", "Return"}
    BY <1>1, <1>2, <2>2
  <2>3. QED
    BY <2>1, <2>2
<1>8. Types'
  BY <1>1, <1>2, <1>3, <1>6, <1>7 DEF Types
<1>9. ASSUME cpu.pc = "RestoreSpsr"
      PROVE  TornFrame(running)'
  <2>1. n = 1 /\ stack[running][1].spsr = InUser
    <3>1. CASE running \in torn
      BY <1>2, <1>9, <3>1, InRestoreSpsr
    <3>2. CASE running \in Users \ torn
      <4>1. Called(running) /\ n # 2
        BY <1>2, <1>9, <3>2, InRestoreSpsr
      <4>2. QED
        BY <4>1 DEF Called, LeadsBack
    <3>3. QED
      BY <1>1, <1>2, <1>9, <3>1, <3>2, InRestoreSpsr, PlacesDiffer
  <2>2. /\ running' = running /\ Len(stack'[running]) = 2
        /\ stack'[running][1].spsr = InUser
    BY <1>2, <1>6, <2>1
  <2>3. stack'[running][2] = Frame(cpu.lr)
    BY <1>6, <2>1
  <2>4. QED
    BY <1>5, <1>9, <2>2, <2>3 DEF TornFrame, TornState, Top
<1>10. ASSUME cpu.pc = "Return"
      PROVE  TornFrame(running)'
  <2>1. n \in 0 .. 1
    <3>1. running \in Users \ torn \/ running \in torn
      BY <1>1, <1>2, <1>10, InReturn, PlacesDiffer
    <3>2. n \in 0 .. 2 /\ (n = 2 => cpu.masked)
      BY <1>10, <3>1, InReturn DEF Called
    <3>3. QED
      BY <1>2, <3>2
  <2>2. running' = running /\ Len(stack'[running]) \in 1 .. 2
    BY <1>2, <1>6, <2>1
  <2>3. QED
    BY <1>5, <1>6, <1>10, <2>2 DEF TornFrame, TornState, Top
<1>11. Runs(running)'
  <2>1. CASE running \in torn'
    <3>1. cpu.pc \in {"RestoreSpsr", "Return"}
      <4>1. running \in torn => cpu.pc \in {"RestoreSpsr", "Return"}
        BY <1>2 DEF EInv, Runs, TornRuns
      <4>2. QED
        BY <1>2, <2>1, <4>1
    <3>2. TornRuns(running)'
      BY <1>3, <1>9, <1>10, <3>1 DEF TornRuns
    <3>3. QED
      BY <1>2, <1>7, <2>1, <3>2, PlacesDiffer DEF Runs
  <2>2. CASE running \in Users /\ running \notin torn'
    <3>1. cpu.pc \notin {"RestoreSpsr", "Return"} /\ running \in Users \ torn
      BY <1>2, <2>2
    <3>2. UserRuns(running) /\ user[running].pc \in UserPcs
      BY <3>1, UserCodeIsNoKernel DEF EInv, Runs
    <3>3. /\ cpu.sp_el0 = running /\ cpu.pc \in {"Call", "Restore"}
          /\ n = 1 /\ LeadsBack(running)
      BY <1>2, <3>1, <3>2 DEF UserRuns, Called
    <3>4. Called(running)' /\ cpu'.sp_el0 = running
      BY <1>1, <1>2, <1>3, <1>5, <1>6, <3>3 DEF Called, LeadsBack, IsNested
    <3>5. UserRuns(running)'
      BY <1>2, <1>3, <3>4 DEF UserRuns
    <3>6. QED
      BY <1>2, <2>2, <3>5, PlacesDiffer DEF Runs
  <2>3. CASE running \in Kernels
    <3>1. running \notin Users /\ running \notin torn'
      BY <1>7, <2>3, PlacesDiffer
    <3>2. cpu.pc = "Spin" /\ n = 0
      BY <1>2, <2>3 DEF EInv, Runs, KernelRuns
    <3>3. KernelRuns(running)'
      BY <1>1, <1>2, <1>3, <1>5, <1>6, <3>2 DEF KernelRuns, SpinFrame
    <3>4. QED
      BY <1>2, <3>1, <3>3 DEF Runs
  <2>4. QED
    BY <1>1, <2>1, <2>2, <2>3, PlacesDiffer
<1>12. \A t \in alive' \ {running'} : Sleeps(t)'
  BY <1>2, <1>6, OthersSleep
<1>13. QED
  BY <1>8, <1>11, <1>12 DEF EInv
-----------------------------------------------------------------------------
(***************************************************************************)
(* Steps in the kernel that change nothing but the processor.              *)
(***************************************************************************)
LEMMA IrqDonePreserves ==
  ASSUME EInv, IrqDone
  PROVE  EInv'
<1>1. /\ cpu.pc = "Irq" /\ cpu' = [cpu EXCEPT !.pc = "Restore"]
      /\ UNCHANGED <<running, alive, registers, stack, slot, user, lost, torn>>
  BY DEF IrqDone
<1>2. Types
  BY DEF EInv
<1>3. /\ cpu' \in Cpu /\ cpu'.pc = "Restore" /\ cpu'.mode = cpu.mode
      /\ cpu'.masked = cpu.masked /\ cpu'.sp_el0 = cpu.sp_el0
  BY <1>1, <1>2 DEF Types, Cpu, Pcs, KernelPcs
<1>4. Types'
  BY <1>1, <1>2, <1>3 DEF Types
<1>5. Runs(running)'
  <2>1. running \in Users \ torn => UserRuns(running)'
    <3>1. SUFFICES ASSUME running \in Users \ torn
                   PROVE  UserRuns(running)'
      OBVIOUS
    <3>2. /\ cpu'.sp_el0 = running /\ cpu'.mode = "EL1" /\ cpu'.masked
          /\ Called(running)
      BY <1>1, <1>3, <3>1, InHandler
    <3>3. Called(running)'
      BY <1>1, <3>2 DEF Called, LeadsBack, IsNested
    <3>4. QED
      BY <1>1, <1>3, <3>2, <3>3 DEF UserRuns
  <2>2. running \in torn => TornRuns(running)'
    BY <1>1, <1>3, InHandler DEF TornRuns, TornFrame, TornState, Top
  <2>3. running \in Kernels => KernelRuns(running)'
    BY <1>1, <1>3, InHandler DEF KernelRuns, SpinFrame
  <2>4. QED
    BY <1>1, <2>1, <2>2, <2>3 DEF Runs
<1>6. \A t \in alive' \ {running'} : Sleeps(t)'
  BY <1>1, OthersSleep
<1>7. QED
  BY <1>4, <1>5, <1>6 DEF EInv

\* There is a frame to restore from.
LEMMA FrameToRestore ==
  ASSUME EInv, cpu.pc \in {"Restore", "RestoreSpsr"}, cpu.mode = "EL1"
  PROVE  /\ Len(stack[running]) \in 1 .. 2
         /\ Top(running).elr \in Pcs /\ Top(running).spsr \in States
<1>1. Types /\ running \in Tasks
  BY DEF EInv, Types
<1>2. Len(stack[running]) \in 1 .. 2
  <2>1. \/ running \in Users \ torn /\ Called(running)
        \/ TornFrame(running)
        \/ SpinFrame(running)
        \/ Len(stack[running]) = 1
    BY <1>1, InHandler, InRestoreSpsr, PlacesDiffer
  <2>2. QED
    BY <2>1 DEF Called, TornFrame, SpinFrame
<1>3. Top(running) \in FrameSet
  <2>1. Len(stack[running]) \in 1 .. Len(stack[running])
    BY <1>2
  <2>2. QED
    BY <1>1, <2>1, FramesAreFrames DEF Top
<1>4. QED
  BY <1>2, <1>3 DEF FrameSet

LEMMA RestorePreserves ==
  ASSUME EInv, Restore
  PROVE  EInv'
<1>1. /\ cpu.pc = "Restore" /\ cpu.mode = "EL1"
      /\ cpu' = [cpu EXCEPT !.elr = Top(running).elr, !.pc = "RestoreSpsr"]
      /\ UNCHANGED <<running, alive, registers, stack, slot, user, lost, torn>>
  BY InHandler DEF Restore
<1>2. Types /\ running \in Tasks
  BY DEF EInv, Types
<1>3. /\ cpu' \in Cpu /\ cpu'.pc = "RestoreSpsr" /\ cpu'.mode = "EL1"
      /\ cpu'.masked = cpu.masked /\ cpu'.sp_el0 = cpu.sp_el0
      /\ cpu'.elr = Top(running).elr
  <2>1. cpu \in Cpu /\ Top(running).elr \in Pcs /\ "RestoreSpsr" \in Pcs
    BY <1>1, <1>2, FrameToRestore DEF Types, Pcs, KernelPcs
  <2>2. QED
    BY <1>1, <2>1 DEF Cpu
<1>4. Types'
  BY <1>1, <1>2, <1>3 DEF Types
<1>5. Top(running)' = Top(running)
  BY <1>1 DEF Top
<1>6. Runs(running)'
  <2>1. running \in Users \ torn => UserRuns(running)'
    <3>1. SUFFICES ASSUME running \in Users \ torn
                   PROVE  UserRuns(running)'
      OBVIOUS
    <3>2. /\ cpu'.sp_el0 = running /\ Called(running)
          /\ Len(stack[running]) = 2 => cpu'.masked
      BY <1>1, <1>3, <3>1, InHandler
    <3>3. Called(running)'
      BY <1>1, <3>2 DEF Called, LeadsBack, IsNested
    <3>4. QED
      BY <1>1, <1>3, <1>5, <3>2, <3>3 DEF UserRuns
  <2>2. ASSUME running \in torn
        PROVE  TornRuns(running)'
    <3>1. cpu'.masked /\ TornFrame(running)
      BY <1>1, <1>3, <2>2, InHandler
    <3>2. TornFrame(running)'
      BY <1>1, <3>1 DEF TornFrame, TornState, Top
    <3>3. QED
      BY <1>1, <1>3, <1>5, <3>1, <3>2 DEF TornRuns
  <2>3. running \in Kernels => KernelRuns(running)'
    BY <1>1, <1>3, InHandler DEF KernelRuns, SpinFrame, Top
  <2>4. QED
    BY <1>1, <2>1, <2>2, <2>3 DEF Runs
<1>7. \A t \in alive' \ {running'} : Sleeps(t)'
  BY <1>1, OthersSleep
<1>8. QED
  BY <1>4, <1>6, <1>7 DEF EInv

LEMMA RestoreSpsrPreserves ==
  ASSUME EInv, RestoreSpsr
  PROVE  EInv'
<1>1. /\ cpu.pc = "RestoreSpsr" /\ cpu.mode = "EL1"
      /\ cpu' = [cpu EXCEPT !.spsr = Top(running).spsr, !.pc = "Return"]
      /\ UNCHANGED <<running, alive, registers, stack, slot, user, lost, torn>>
  BY DEF RestoreSpsr
<1>2. Types /\ running \in Tasks
  BY DEF EInv, Types
<1>3. /\ cpu' \in Cpu /\ cpu'.pc = "Return" /\ cpu'.mode = "EL1"
      /\ cpu'.masked = cpu.masked /\ cpu'.sp_el0 = cpu.sp_el0
      /\ cpu'.elr = cpu.elr /\ cpu'.spsr = Top(running).spsr
  <2>1. cpu \in Cpu /\ Top(running).spsr \in States /\ "Return" \in Pcs
    BY <1>1, <1>2, FrameToRestore DEF Types, Pcs, KernelPcs
  <2>2. QED
    BY <1>1, <2>1 DEF Cpu
<1>4. Types'
  BY <1>1, <1>2, <1>3 DEF Types
<1>5. Runs(running)'
  <2>1. running \in Users \ torn => UserRuns(running)'
    <3>1. SUFFICES ASSUME running \in Users \ torn
                   PROVE  UserRuns(running)'
      OBVIOUS
    <3>2. /\ cpu'.sp_el0 = running /\ Called(running)
          /\ cpu'.elr = Top(running).elr
          /\ Len(stack[running]) = 2 => cpu'.masked
      BY <1>1, <1>3, <3>1, InRestoreSpsr
    <3>3. Called(running)'
      BY <1>1, <3>2 DEF Called, LeadsBack, IsNested
    <3>4. CASE Len(stack[running]) = 1
      <4>1. cpu'.elr = user[running].pc /\ cpu'.spsr = InUser
        BY <1>3, <3>2, <3>4 DEF Called, LeadsBack, Top
      <4>2. QED
        BY <1>1, <1>3, <3>2, <3>3, <3>4, <4>1 DEF UserRuns
    <3>5. CASE Len(stack[running]) = 2
      <4>1. cpu'.elr = stack[running][2].elr /\ cpu'.spsr = InKernel
        BY <1>3, <3>2, <3>5 DEF Called, IsNested, Top
      <4>2. QED
        BY <1>1, <1>3, <3>2, <3>3, <3>5, <4>1 DEF UserRuns
    <3>6. QED
      BY <3>2, <3>4, <3>5 DEF Called
  <2>2. ASSUME running \in torn
        PROVE  TornRuns(running)'
    <3>1. /\ TornState(running, Len(stack[running]), cpu'.elr, cpu'.spsr)
          /\ Len(stack[running]) \in 0 .. 2 /\ (Len(stack[running]) = 2 => cpu'.masked)
      <4>1. CASE cpu.masked /\ TornFrame(running) /\ cpu.elr = Top(running).elr
        BY <1>3, <4>1 DEF TornFrame
      <4>2. CASE /\ cpu.elr = "RestoreSpsr"
                 /\ Len(stack[running]) = 1 /\ stack[running][1].spsr = InUser
        BY <1>3, <4>2 DEF TornState, Top
      <4>3. QED
        BY <1>1, <2>2, <4>1, <4>2, InRestoreSpsr
    <3>2. TornState(running, Len(stack[running]), cpu.elr, cpu.spsr)'
      BY <1>1, <3>1 DEF TornState
    <3>3. QED
      BY <1>1, <1>3, <3>1, <3>2 DEF TornRuns
  <2>3. running \in Kernels => KernelRuns(running)'
    BY <1>1, <1>3, InRestoreSpsr DEF KernelRuns, SpinFrame, Top
  <2>4. QED
    BY <1>1, <2>1, <2>2, <2>3 DEF Runs
<1>6. \A t \in alive' \ {running'} : Sleeps(t)'
  BY <1>1, OthersSleep
<1>7. QED
  BY <1>4, <1>5, <1>6 DEF EInv

\* Steps of a system call in the kernel: masked is FALSE in its code, and TRUE where it
\* may reschedule.
LEMMA InCallPreserves ==
  ASSUME EInv, cpu.pc \in {"Entered", "Call", "Disabled"},
         NEW place \in {"Call", "Disabled"},
         cpu' = [cpu EXCEPT !.pc = place, !.masked = (place = "Disabled")],
         UNCHANGED <<running, alive, registers, stack, slot, user, lost, torn>>
  PROVE  EInv'
<1>1. Types /\ running \in Tasks
  BY DEF EInv, Types
<1>2. /\ cpu' \in Cpu /\ cpu'.pc = place /\ cpu'.mode = cpu.mode
      /\ cpu'.masked = (place = "Disabled") /\ cpu'.sp_el0 = cpu.sp_el0
  <2>1. (place = "Disabled") \in BOOLEAN /\ place \in Pcs /\ cpu \in Cpu
    BY <1>1 DEF Types, Pcs, KernelPcs
  <2>2. QED
    BY <2>1 DEF Cpu
<1>3. Types'
  BY <1>1, <1>2 DEF Types
<1>4. /\ running \in Users \ torn /\ running \notin Kernels
      /\ cpu'.sp_el0 = running /\ cpu'.mode = "EL1"
      /\ Len(stack'[running]) = 1 /\ LeadsBack(running)'
  BY <1>2, InCall, PlacesDiffer DEF LeadsBack
<1>5. UserRuns(running)'
  BY <1>2, <1>4 DEF UserRuns, Called
<1>6. Runs(running)'
  BY <1>4, <1>5 DEF Runs
<1>7. \A t \in alive' \ {running'} : Sleeps(t)'
  BY OthersSleep
<1>8. QED
  BY <1>3, <1>6, <1>7 DEF EInv

LEMMA CallStepsPreserve ==
  ASSUME EInv, Accept \/ Disable \/ Enable
  PROVE  EInv'
<1>1. CASE Accept
  BY <1>1, InCallPreserves DEF Accept
<1>2. CASE Disable
  BY <1>2, InCallPreserves DEF Disable
<1>3. CASE Enable
  BY <1>3, InCallPreserves DEF Enable
<1>4. QED
  BY <1>1, <1>2, <1>3
-----------------------------------------------------------------------------
(***************************************************************************)
(* Leaving the kernel, and user code.                                      *)
(***************************************************************************)
LEMMA ReturnPreserves ==
  ASSUME EInv, Return
  PROVE  EInv'
<1> DEFINE n == Len(stack[running])
<1>1. /\ cpu.pc = "Return"
      /\ cpu' = [cpu EXCEPT !.pc = cpu.elr, !.mode = cpu.spsr.mode,
                   !.masked = cpu.spsr.masked,
                   !.x0 = IF stack[running] = <<>> THEN "Kernel" ELSE Top(running).x0,
                   !.lr = IF stack[running] = <<>> THEN NoLr ELSE Top(running).lr]
      /\ stack' = [stack EXCEPT ![running] = Popped(running)]
      /\ UNCHANGED <<running, alive, registers, slot, user, lost, torn>>
  BY DEF Return
<1>2. Types /\ running \in Tasks /\ n \in Nat /\ stack[running] \in Seq(FrameSet)
  BY DEF EInv, Types
<1>3. stack[running] # <<>> => Top(running) \in FrameSet
  <2>1. stack[running] # <<>> => n > 0
    <3> HIDE DEF FrameSet
    <3>1. QED
      BY <1>2
  <2>2. QED
    BY <1>2, <2>1, FramesAreFrames DEF Top
<1> DEFINE x == IF stack[running] = <<>> THEN "Kernel" ELSE Top(running).x0
           l == IF stack[running] = <<>> THEN NoLr ELSE Top(running).lr
<1>4. x \in X0s /\ l \in Lrs
  BY <1>3 DEF FrameSet, X0s, Lrs
<1>5. n > 0 => x = Top(running).x0 /\ l = Top(running).lr
  <2>1. n > 0 => stack[running] # <<>>
    BY <1>2, PoppedFrame
  <2>2. QED
    BY <2>1
<1>6. cpu' = [cpu EXCEPT !.pc = cpu.elr, !.mode = cpu.spsr.mode,
                         !.masked = cpu.spsr.masked, !.x0 = x, !.lr = l]
  BY <1>1
<1> HIDE DEF x, l
<1>7. /\ cpu' \in Cpu /\ cpu'.pc = cpu.elr /\ cpu'.mode = cpu.spsr.mode
      /\ cpu'.masked = cpu.spsr.masked /\ cpu'.x0 = x /\ cpu'.lr = l
      /\ cpu'.sp_el0 = cpu.sp_el0 /\ cpu'.elr = cpu.elr /\ cpu'.spsr = cpu.spsr
  <2>1. cpu \in Cpu /\ cpu.elr \in Pcs /\ cpu.spsr.mode \in {"EL0", "EL1"}
        /\ cpu.spsr.masked \in BOOLEAN
    BY <1>2 DEF Types, Cpu, States
  <2>2. QED
    BY <1>4, <1>6, <2>1 DEF Cpu
<1>8. /\ stack' \in [Tasks -> Seq(FrameSet)] /\ stack'[running] = Popped(running)
      /\ \A t \in Tasks : t # running => stack'[t] = stack[t]
  BY <1>1, <1>2, PoppedFrame DEF Types
<1>9. Types'
  BY <1>1, <1>2, <1>7, <1>8 DEF Types
<1>10. n > 0 => /\ Len(stack'[running]) = n - 1
                /\ \A i \in 1 .. n - 1 : stack'[running][i] = stack[running][i]
  BY <1>2, <1>8, PoppedFrame
<1>11. Runs(running)'
  <2>1. running \in Users \ torn => UserRuns(running)'
    <3>1. SUFFICES ASSUME running \in Users \ torn
                   PROVE  UserRuns(running)'
      OBVIOUS
    <3>2. /\ cpu'.sp_el0 = running /\ Called(running)
          /\ n = 1 => cpu.elr = user[running].pc /\ cpu.spsr = InUser
          /\ n = 2 => cpu.masked /\ cpu.elr = stack[running][2].elr /\ cpu.spsr = InKernel
      BY <1>1, <1>7, <3>1, InReturn
    <3>3. CASE n = 1
      <4>1. LeadsBack(running) /\ Len(stack'[running]) = 0
        BY <1>10, <3>2, <3>3 DEF Called
      <4>2. x = stack[running][1].x0 /\ l = stack[running][1].lr
        BY <1>5, <3>3 DEF Top
      <4>3. /\ cpu'.pc = user[running].pc /\ cpu'.mode = "EL0" /\ ~cpu'.masked
            /\ cpu'.x0 = user[running].x0
            /\ running \in lost \/ cpu'.lr = user[running].lr
        BY <1>7, <3>2, <3>3, <4>1, <4>2, StatesAreStates DEF LeadsBack
      <4>4. QED
        BY <1>1, <3>2, <4>1, <4>3 DEF UserRuns
    <3>4. CASE n = 2
      <4>1. LeadsBack(running) /\ IsNested(running)
        BY <3>2, <3>4 DEF Called
      <4>2. Len(stack'[running]) = 1 /\ stack'[running][1] = stack[running][1]
        BY <1>10, <3>4
      <4>3. Called(running)'
        BY <1>1, <4>1, <4>2 DEF Called, LeadsBack
      <4>4. cpu'.pc \in {"Call", "Restore"} /\ cpu'.mode = "EL1" /\ ~cpu'.masked
        BY <1>7, <3>2, <3>4, <4>1, StatesAreStates DEF IsNested
      <4>5. QED
        BY <1>1, <3>2, <4>2, <4>3, <4>4 DEF UserRuns
    <3>5. QED
      BY <3>2, <3>3, <3>4 DEF Called
  <2>2. ASSUME running \in torn
        PROVE  TornRuns(running)'
    <3>1. TornState(running, n, cpu.elr, cpu.spsr) /\ n \in 0 .. 2
      BY <1>1, <2>2, InReturn
    <3>2. n = 0 => stack'[running] = <<>>
      <4>1. n = 0 => stack[running] = <<>>
        <5> HIDE DEF FrameSet
        <5>1. QED
          BY <1>2
      <4>2. QED
        BY <1>8, <4>1 DEF Popped
    <3>3. Len(stack[running])' \in 0 .. 1 /\ (n = 1 => Len(stack[running])' = 0)
      <4>1. CASE n = 0
        BY <1>1, <3>2, <4>1
      <4>2. CASE n = 1
        BY <1>1, <1>10, <4>2
      <4>3. CASE n = 2
        BY <1>1, <1>10, <4>3
      <4>4. QED
        BY <3>1, <4>1, <4>2, <4>3
    <3>4. CASE cpu.elr = "Return" /\ cpu.spsr = InKernel
      <4>1. cpu'.pc = "Return" /\ cpu'.mode = "EL1"
            /\ cpu'.elr = "Return" /\ cpu'.spsr = InKernel
        BY <1>7, <3>4, StatesAreStates
      <4>2. QED
        BY <1>1, <3>3, <4>1 DEF TornRuns, TornState
    <3>5. CASE /\ cpu.elr = "RestoreSpsr" /\ cpu.spsr = InKernel
               /\ n = 2 /\ stack[running][1].spsr = InUser
      <4>1. cpu'.pc = "RestoreSpsr" /\ cpu'.mode = "EL1" /\ cpu'.elr = "RestoreSpsr"
        BY <1>7, <3>5, StatesAreStates
      <4>2. Len(stack'[running]) = 1 /\ stack'[running][1].spsr = InUser
        BY <1>10, <3>5
      <4>3. QED
        BY <1>1, <4>1, <4>2 DEF TornRuns
    <3>6. CASE cpu.elr = "RestoreSpsr" /\ cpu.spsr = InUser /\ n = 1
      <4>1. cpu'.pc = "RestoreSpsr" /\ cpu'.mode = "EL0" /\ ~cpu'.masked
        BY <1>7, <3>6, StatesAreStates
      <4>2. QED
        BY <1>1, <3>3, <3>6, <4>1 DEF TornRuns
    <3>7. QED
      BY <3>1, <3>4, <3>5, <3>6 DEF TornState
  <2>3. ASSUME running \in Kernels
        PROVE  KernelRuns(running)'
    <3>1. cpu.elr = "Spin" /\ cpu.spsr = InKernel /\ n = 1
      BY <1>1, <2>3, InReturn
    <3>2. cpu'.pc = "Spin" /\ cpu'.mode = "EL1"
      BY <1>7, <3>1, StatesAreStates
    <3>3. Len(stack'[running]) = 0
      BY <1>10, <3>1
    <3>4. QED
      BY <1>1, <3>2, <3>3 DEF KernelRuns
  <2>4. QED
    BY <1>1, <2>1, <2>2, <2>3 DEF Runs
<1>12. \A t \in alive' \ {running'} : Sleeps(t)'
  BY <1>1, <1>8, OthersSleep
<1>13. QED
  BY <1>9, <1>11, <1>12 DEF EInv

\* The result of a call is in its frame.
LEMMA ResultPreserves ==
  ASSUME EInv, cpu.pc \in {"Entered", "Call"}, NEW x \in {"Result", "Error"}, Result(x)
  PROVE  EInv'
<1>1. /\ cpu' = [cpu EXCEPT !.pc = "Restore"]
      /\ stack' = [stack EXCEPT ![running][Len(stack[running])].x0 = x]
      /\ user' = [user EXCEPT ![running].x0 = x]
      /\ UNCHANGED <<running, alive, registers, slot, lost, torn>>
  BY DEF Result
<1>2. Types /\ running \in Tasks /\ stack[running] \in Seq(FrameSet)
  BY DEF EInv, Types
<1>3. /\ running \in Users \ torn /\ running \notin Kernels /\ cpu.sp_el0 = running
      /\ cpu.mode = "EL1" /\ Len(stack[running]) = 1 /\ LeadsBack(running)
  BY InCall, PlacesDiffer
<1>4. /\ cpu' \in Cpu /\ cpu'.pc = "Restore" /\ cpu'.mode = "EL1"
      /\ cpu'.sp_el0 = running
  <2>1. cpu \in Cpu /\ "Restore" \in Pcs
    BY <1>2 DEF Types, Pcs, KernelPcs
  <2>2. QED
    BY <1>1, <1>3, <2>1 DEF Cpu
<1> DEFINE frame == [stack[running][1] EXCEPT !.x0 = x]
<1>5. /\ frame \in FrameSet /\ frame.x0 = x /\ frame.elr = stack[running][1].elr
      /\ frame.spsr = stack[running][1].spsr /\ frame.lr = stack[running][1].lr
  <2>1. stack[running][1] \in FrameSet
    BY <1>2, <1>3, FramesAreFrames
  <2>2. QED
    BY <2>1 DEF FrameSet, X0s
<1>6. stack' = [stack EXCEPT ![running] = [stack[running] EXCEPT ![1] = frame]]
  BY <1>1, <1>3
<1> HIDE DEF frame
<1>7. /\ [stack[running] EXCEPT ![1] = frame] \in Seq(FrameSet)
      /\ Len([stack[running] EXCEPT ![1] = frame]) = 1
      /\ [stack[running] EXCEPT ![1] = frame][1] = frame
  <2> HIDE DEF FrameSet
  <2>1. QED
    BY <1>2, <1>3, <1>5
<1>8. /\ stack' \in [Tasks -> Seq(FrameSet)]
      /\ Len(stack'[running]) = 1 /\ stack'[running][1] = frame
      /\ \A t \in Tasks : t # running => stack'[t] = stack[t]
  BY <1>2, <1>6, <1>7 DEF Types
<1>9. /\ user' \in [Users -> Context]
      /\ user'[running].x0 = x /\ user'[running].pc = user[running].pc
      /\ user'[running].lr = user[running].lr
      /\ \A t \in Users : t # running => user'[t] = user[t]
  <2>1. user \in [Users -> Context] /\ user[running] \in Context
    BY <1>2, <1>3 DEF Types
  <2>2. QED
    BY <1>1, <1>3, <2>1 DEF Context, X0s
<1>10. Types'
  BY <1>1, <1>2, <1>4, <1>8, <1>9 DEF Types
<1>11. LeadsBack(running)'
  BY <1>1, <1>3, <1>5, <1>8, <1>9 DEF LeadsBack
<1>12. UserRuns(running)'
  <2>1. Len(stack[running])' = 1
    BY <1>1, <1>8
  <2>2. Called(running)'
    BY <1>11, <2>1 DEF Called
  <2>3. (cpu.pc = "Restore" /\ cpu.mode = "EL1" /\ cpu.sp_el0 = running)'
    BY <1>1, <1>4
  <2>4. QED
    BY <2>1, <2>2, <2>3 DEF UserRuns
<1>13. Runs(running)'
  BY <1>1, <1>3, <1>12 DEF Runs
<1>14. \A t \in alive' \ {running'} : Sleeps(t)'
  BY <1>1, <1>8, <1>9, OthersSleep
<1>15. QED
  BY <1>10, <1>13, <1>14 DEF EInv

LEMMA UserStepPreserves ==
  ASSUME EInv, NEW pc \in UserPcs, NEW lr \in UserLrs, UserStep(pc, lr)
  PROVE  EInv'
<1>1. /\ cpu.pc \in UserPcs /\ cpu.mode = "EL0"
      /\ cpu' = [cpu EXCEPT !.pc = pc, !.lr = lr, !.x0 = "Own"]
      /\ user' = [user EXCEPT ![running] = [pc |-> pc, lr |-> lr, x0 |-> "Own"]]
      /\ lost' = lost \ {running}
      /\ UNCHANGED <<running, alive, registers, stack, slot, torn>>
  BY InUserCode DEF UserStep
<1>2. Types /\ running \in Users \ torn /\ running \notin Kernels
  BY <1>1, InUserCode, PlacesDiffer DEF EInv
<1>3. /\ cpu' \in Cpu /\ cpu'.pc = pc /\ cpu'.lr = lr /\ cpu'.x0 = "Own"
      /\ cpu'.mode = "EL0" /\ cpu'.masked = cpu.masked /\ cpu'.sp_el0 = cpu.sp_el0
  <2>1. cpu \in Cpu /\ pc \in Pcs /\ lr \in Lrs /\ "Own" \in X0s
    BY <1>2 DEF Types, Pcs, Lrs, X0s
  <2>2. QED
    BY <1>1, <2>1 DEF Cpu
<1>4. [pc |-> pc, lr |-> lr, x0 |-> "Own"] \in Context
  BY DEF Context, Lrs, X0s
<1>5. /\ user' \in [Users -> Context]
      /\ user'[running] = [pc |-> pc, lr |-> lr, x0 |-> "Own"]
      /\ \A t \in Users : t # running => user'[t] = user[t]
  BY <1>1, <1>2, <1>4 DEF Types
<1>6. Types'
  BY <1>1, <1>2, <1>3, <1>5 DEF Types
<1>7. UserRuns(running)'
  BY <1>1, <1>3, <1>5, InUserCode DEF UserRuns
<1>8. Runs(running)'
  BY <1>1, <1>2, <1>7 DEF Runs
<1>9. \A t \in alive' \ {running'} : Sleeps(t)'
  BY <1>1, <1>5, OthersSleep
<1>10. QED
  BY <1>6, <1>8, <1>9 DEF EInv
-----------------------------------------------------------------------------
(***************************************************************************)
(* Switching: what is saved of one task, and what another is started with. *)
(***************************************************************************)
LEMMA SavedSleeps ==
  ASSUME EInv, cpu.pc \in {"Irq", "Disabled"}, NEW t \in Tasks, t = running,
         registers' = [registers EXCEPT ![running] = _task_save(running)],
         UNCHANGED <<stack, user, lost, torn>>
  PROVE  /\ registers' \in [Tasks -> [cpsr : States, pc : Pcs, user_sp : Tasks]]
         /\ \A u \in Tasks : u # running => registers'[u] = registers[u]
         /\ Sleeps(t)'
<1>1. Types /\ running \in Tasks
  BY DEF EInv, Types
<1>2. cpu.mode = "EL1" /\ cpu.masked = TRUE
  <2>1. cpu.mode = "EL1" /\ cpu.masked
    BY InHandler, InCall
  <2>2. QED
    BY <1>1, <2>1 DEF Types, Cpu
<1> DEFINE saved == _task_save(running)
<1>3. /\ saved \in [cpsr : States, pc : Pcs, user_sp : Tasks]
      /\ saved.cpsr = InKernelMasked
      /\ saved.pc = IF cpu.pc = "Irq" THEN "Restore" ELSE "Disabled"
      /\ running \in Users => saved.user_sp = cpu.sp_el0
  <2>1. registers[running] \in [cpsr : States, pc : Pcs, user_sp : Tasks]
    BY <1>1 DEF Types
  <2>2. State("EL1", cpu.masked) = InKernelMasked /\ InKernelMasked \in States
    BY <1>2, StatesAreStates DEF InKernelMasked
  <2>3. cpu.sp_el0 \in Tasks /\ "Restore" \in Pcs /\ "Disabled" \in Pcs
    BY <1>1 DEF Types, Cpu, Pcs, KernelPcs
  <2>4. QED
    BY <2>1, <2>2, <2>3 DEF _task_save
<1> HIDE DEF saved
<1>4. /\ registers' \in [Tasks -> [cpsr : States, pc : Pcs, user_sp : Tasks]]
      /\ registers'[running] = saved
      /\ \A u \in Tasks : u # running => registers'[u] = registers[u]
  BY <1>1, <1>3 DEF Types, saved
<1>5. t = running
  OBVIOUS
<1>6. ASSUME t \in Users \ torn
      PROVE  UserSleeps(t)'
  <2>1. cpu.sp_el0 = t /\ Called(t) /\ (cpu.pc = "Disabled" => Len(stack[t]) = 1)
    BY <1>5, <1>6, InHandler, InCall DEF Called
  <2>2. Called(t)' /\ (cpu.pc = "Disabled" => Len(stack'[t]) = 1)
    BY <2>1 DEF Called, LeadsBack, IsNested
  <2>3. QED
    BY <1>3, <1>4, <1>5, <1>6, <2>1, <2>2 DEF UserSleeps
<1>7. ASSUME t \in torn
      PROVE  TornSleeps(t)'
  <2>1. cpu.pc = "Irq" /\ TornFrame(t)
    BY <1>5, <1>7, InHandler, InCall
  <2>2. QED
    BY <1>3, <1>4, <1>5, <2>1 DEF TornSleeps, TornFrame, TornState, Top
<1>8. ASSUME t \in Kernels
      PROVE  KernelSleeps(t)'
  <2>1. cpu.pc = "Irq" /\ SpinFrame(t)
    BY <1>5, <1>8, InHandler, InCall, PlacesDiffer
  <2>2. QED
    BY <1>3, <1>4, <1>5, <2>1 DEF KernelSleeps, SpinFrame
<1>9. Sleeps(t)'
  BY <1>6, <1>7, <1>8 DEF Sleeps
<1>10. QED
  BY <1>4, <1>9

LEMMA StartedRuns ==
  ASSUME EInv, NEW t \in alive, t # running, _task_start(t),
         UNCHANGED <<stack, user, lost, torn>>
  PROVE  cpu' \in Cpu /\ Runs(t)'
<1>1. Types /\ t \in Tasks /\ Sleeps(t)
  BY DEF EInv, Types
<1> DEFINE sp == IF t \in Users THEN registers[t].user_sp ELSE cpu.sp_el0
<1>2. /\ cpu \in Cpu /\ registers[t].pc \in Pcs /\ registers[t].cpsr \in States
      /\ registers[t].cpsr.mode \in {"EL0", "EL1"} /\ registers[t].cpsr.masked \in BOOLEAN
      /\ sp \in Tasks
  BY <1>1 DEF Types, Cpu, States
<1>3. cpu' = [cpu EXCEPT !.elr = registers[t].pc, !.spsr = registers[t].cpsr,
                         !.pc = registers[t].pc, !.mode = registers[t].cpsr.mode,
                         !.masked = registers[t].cpsr.masked, !.x0 = "Zero", !.lr = NoLr,
                         !.sp_el0 = sp]
  BY DEF _task_start
<1> HIDE DEF sp
<1>4. /\ cpu' \in Cpu /\ cpu'.pc = registers[t].pc /\ cpu'.mode = registers[t].cpsr.mode
      /\ cpu'.masked = registers[t].cpsr.masked /\ cpu'.x0 = "Zero" /\ cpu'.lr = NoLr
      /\ cpu'.sp_el0 = sp
  <2>1. "Zero" \in X0s /\ NoLr \in Lrs
    BY DEF X0s, Lrs
  <2>2. QED
    BY <1>2, <1>3, <2>1 DEF Cpu
<1>5. ASSUME t \in Users \ torn
      PROVE  UserRuns(t)'
  <2>1. CASE registers[t] = NewRegisters(t) /\ Len(stack[t]) = 0
             /\ user[t] = [pc |-> NewRegisters(t).pc, lr |-> NoLr, x0 |-> "Zero"]
    <3>1. registers[t].user_sp = t /\ registers[t].cpsr = InUser
      BY <1>1, <1>5, <2>1, NewRegistersAre
    <3>2. /\ cpu'.sp_el0 = t /\ cpu'.mode = "EL0" /\ ~cpu'.masked
          /\ cpu'.pc = user[t].pc /\ cpu'.x0 = user[t].x0 /\ cpu'.lr = user[t].lr
      BY <1>4, <1>5, <2>1, <3>1, StatesAreStates DEF sp
    <3>3. QED
      BY <2>1, <3>2 DEF UserRuns
  <2>2. CASE /\ registers[t].user_sp = t /\ registers[t].cpsr = InKernelMasked /\ Called(t)
             /\ \/ registers[t].pc = "Restore"
                \/ registers[t].pc = "Disabled" /\ Len(stack[t]) = 1
    <3>1. /\ cpu'.sp_el0 = t /\ cpu'.mode = "EL1" /\ cpu'.masked
          /\ cpu'.pc = registers[t].pc
      BY <1>4, <1>5, <2>2, StatesAreStates DEF sp
    <3>2. Called(t)'
      BY <2>2 DEF Called, LeadsBack, IsNested
    <3>3. QED
      BY <2>2, <3>1, <3>2 DEF UserRuns
  <2>3. QED
    BY <1>1, <1>5, <2>1, <2>2 DEF Sleeps, UserSleeps
<1>6. ASSUME t \in torn
      PROVE  TornRuns(t)'
  <2>1. TornSleeps(t)
    BY <1>1, <1>6 DEF Sleeps
  <2>2. /\ cpu'.pc = "Restore" /\ cpu'.mode = "EL1" /\ cpu'.masked
    BY <1>4, <2>1, StatesAreStates DEF TornSleeps
  <2>3. QED
    BY <2>1, <2>2 DEF TornSleeps, TornRuns, TornFrame, TornState, Top
<1>7. ASSUME t \in Kernels
      PROVE  KernelRuns(t)'
  <2>1. CASE registers[t] = NewRegisters(t) /\ Len(stack[t]) = 0
    <3>1. registers[t].pc = "Spin" /\ registers[t].cpsr = InKernel
      BY <1>1, <1>7, <2>1, NewRegistersAre
    <3>2. cpu'.pc = "Spin" /\ cpu'.mode = "EL1"
      BY <1>4, <3>1, StatesAreStates
    <3>3. QED
      BY <2>1, <3>2 DEF KernelRuns
  <2>2. CASE /\ registers[t].pc = "Restore" /\ registers[t].cpsr = InKernelMasked
             /\ SpinFrame(t)
    <3>1. cpu'.pc = "Restore" /\ cpu'.mode = "EL1" /\ cpu'.masked
      BY <1>4, <2>2, StatesAreStates
    <3>2. QED
      BY <2>2, <3>1 DEF KernelRuns, SpinFrame
  <2>3. QED
    BY <1>1, <1>7, <2>1, <2>2 DEF Sleeps, KernelSleeps
<1>8. QED
  BY <1>4, <1>5, <1>6, <1>7 DEF Runs

LEMMA SchedulePreserves ==
  ASSUME EInv, NEW t \in Tasks, Schedule(t)
  PROVE  EInv'
<1>1. /\ cpu.pc \in {"Irq", "Disabled"} /\ t \in alive /\ t # running
      /\ registers' = [registers EXCEPT ![running] = _task_save(running)]
      /\ _task_start(t) /\ running' = t
      /\ UNCHANGED <<alive, stack, slot, user, lost, torn>>
  BY DEF Schedule
<1>2. Types
  BY DEF EInv
<1>3. /\ registers' \in [Tasks -> [cpsr : States, pc : Pcs, user_sp : Tasks]]
      /\ \A u \in Tasks : u # running => registers'[u] = registers[u]
  <2>1. running \in Tasks
    BY <1>2 DEF Types
  <2>2. QED
    BY <1>1, <2>1, SavedSleeps
<1>4. cpu' \in Cpu /\ Runs(t)'
  BY <1>1, StartedRuns
<1>5. Types'
  BY <1>1, <1>2, <1>3, <1>4 DEF Types
<1>6. ASSUME NEW u \in alive' \ {running'}
      PROVE  Sleeps(u)'
  <2>1. CASE u = running
    <3>1. u \in Tasks
      BY <1>2, <2>1 DEF Types
    <3>2. QED
      BY <1>1, <2>1, <3>1, SavedSleeps
  <2>2. CASE u # running
    <3>1. u \in Tasks /\ Sleeps(u)
      BY <1>1, <1>6, <2>2 DEF EInv, Types
    <3>2. QED
      BY <1>1, <1>3, <2>2, <3>1, SleepsOn
  <2>3. QED
    BY <2>1, <2>2
<1>7. QED
  BY <1>1, <1>4, <1>5, <1>6 DEF EInv

LEMMA ExitPreserves ==
  ASSUME EInv, NEW t \in Tasks, Exit(t)
  PROVE  EInv'
<1>1. /\ cpu.pc = "Disabled" /\ t \in alive /\ t # running
      /\ alive' = alive \ {running} /\ _task_start(t) /\ running' = t
      /\ UNCHANGED <<registers, stack, slot, user, lost, torn>>
  BY DEF Exit
<1>2. Types /\ running \notin Kernels
  BY <1>1, InCall, PlacesDiffer DEF EInv
<1>3. cpu' \in Cpu /\ Runs(t)'
  BY <1>1, StartedRuns
<1>4. Types'
  BY <1>1, <1>2, <1>3 DEF Types
<1>5. ASSUME NEW u \in alive' \ {running'}
      PROVE  Sleeps(u)'
  <2>1. Sleeps(u)
    BY <1>1, <1>5 DEF EInv
  <2>2. QED
    BY <1>1, <2>1, SleepsOn
<1>6. QED
  BY <1>1, <1>3, <1>4, <1>5 DEF EInv
-----------------------------------------------------------------------------
(***************************************************************************)
(* The invariant of the specification.                                     *)
(***************************************************************************)
LEMMA InitEstablishes == Init => EInv
<1>1. SUFFICES ASSUME Init
               PROVE  EInv
  OBVIOUS
<1>2. /\ running \in Users /\ alive = Tasks
      /\ registers = [t \in Tasks |-> NewRegisters(t)]
      /\ stack = [t \in Tasks |-> <<>>] /\ slot = [t \in Tasks |-> "stale"]
      /\ cpu = [pc |-> NewRegisters(running).pc, mode |-> "EL0", masked |-> FALSE,
                x0 |-> "Zero", lr |-> NoLr, sp_el0 |-> running,
                elr |-> NewRegisters(running).pc, spsr |-> NewRegisters(running).cpsr]
      /\ user = [t \in Users |-> [pc |-> NewRegisters(t).pc, lr |-> NoLr, x0 |-> "Zero"]]
      /\ torn = {}
  BY <1>1 DEF Init
<1>3. Users \subseteq Tasks /\ Kernels \subseteq Tasks /\ running \in Tasks
  BY <1>2 DEF Tasks
<1>4. "Zero" \in X0s /\ NoLr \in Lrs /\ "stale" \in Lrs
  BY DEF X0s, Lrs
<1>5. \A t \in Users : [pc |-> NewRegisters(t).pc, lr |-> NoLr, x0 |-> "Zero"] \in Context
  BY <1>3, <1>4, NewRegistersAre DEF Context
<1>6. cpu \in Cpu
  <2>1. NewRegisters(running).pc \in Pcs /\ NewRegisters(running).cpsr \in States
    BY <1>3, NewRegistersAre
  <2>2. QED
    BY <1>2, <1>3, <1>4, <2>1 DEF Cpu
<1>7. Types
  <2>1. registers \in [Tasks -> [cpsr : States, pc : Pcs, user_sp : Tasks]]
    BY <1>2, NewRegistersAre
  <2>2. stack \in [Tasks -> Seq(FrameSet)] /\ slot \in [Tasks -> Lrs]
    BY <1>2, <1>4
  <2>3. user \in [Users -> Context]
    BY <1>2, <1>5
  <2>4. QED
    BY <1>2, <1>3, <1>6, <2>1, <2>2, <2>3 DEF Types
<1>8. ASSUME NEW t \in Tasks
      PROVE  /\ registers[t] = NewRegisters(t) /\ Len(stack[t]) = 0
             /\ t \in Users => user[t] = [pc |-> NewRegisters(t).pc, lr |-> NoLr, x0 |-> "Zero"]
  BY <1>2
<1>9. Runs(running)
  <2>1. UserRuns(running)
    BY <1>2, <1>3, <1>8 DEF UserRuns
  <2>2. QED
    BY <1>2, <2>1, PlacesDiffer DEF Runs
<1>10. \A t \in Tasks : Sleeps(t)
  BY <1>2, <1>8 DEF Sleeps, UserSleeps, KernelSleeps
<1>11. QED
  BY <1>2, <1>7, <1>9, <1>10 DEF EInv

LEMMA NextPreserves == EInv /\ [Next]_vars => EInv'
<1> SUFFICES ASSUME EInv, [Next]_vars
             PROVE  EInv'
  OBVIOUS
<1>1. CASE \E t \in Tasks : Schedule(t) \/ Exit(t)
  BY <1>1, SchedulePreserves, ExitPreserves
<1>2. CASE Svc
  BY <1>2, SvcPreserves
<1>3. CASE Fault
  BY <1>3, FaultPreserves
<1>4. CASE Reject
  BY <1>4, ResultPreserves DEF Reject
<1>5. CASE Accept \/ Disable \/ Enable
  BY <1>5, CallStepsPreserve
<1>6. CASE Complete
  BY <1>6, ResultPreserves DEF Complete
<1>7. CASE IrqFromUser
  BY <1>7, IrqFromUserPreserves
<1>8. CASE IrqFromKernel
  BY <1>8, IrqFromKernelPreserves
<1>9. CASE IrqDone
  BY <1>9, IrqDonePreserves
<1>10. CASE Restore
  BY <1>10, RestorePreserves
<1>11. CASE RestoreSpsr
  BY <1>11, RestoreSpsrPreserves
<1>12. CASE Return
  BY <1>12, ReturnPreserves
<1>13. CASE \E pc \in UserPcs, lr \in UserLrs : UserStep(pc, lr)
  BY <1>13, UserStepPreserves
<1>14. CASE UNCHANGED vars
  <2>1. UNCHANGED <<cpu, running, alive, registers, stack, slot, user, lost, torn>>
    BY <1>14 DEF vars
  <2>2. Types'
    BY <2>1 DEF EInv, Types
  <2>3. Runs(running)'
    <3>1. /\ UserRuns(running) => UserRuns(running)'
          /\ TornRuns(running) => TornRuns(running)'
          /\ KernelRuns(running) => KernelRuns(running)'
      BY <2>1 DEF UserRuns, Called, LeadsBack, IsNested, TornRuns, TornFrame, TornState, Top,
                  KernelRuns, SpinFrame
    <3>2. QED
      BY <2>1, <3>1 DEF EInv, Runs
  <2>4. \A t \in alive' \ {running'} : Sleeps(t)'
    BY <2>1, OthersSleep
  <2>5. QED
    BY <2>2, <2>3, <2>4 DEF EInv
<1>15. QED
  BY <1>1, <1>2, <1>3, <1>4, <1>5, <1>6, <1>7, <1>8, <1>9, <1>10, <1>11, <1>12, <1>13, <1>14
     DEF Next

LEMMA SpecKeepsInvariant == Spec => []EInv
<1>1. QED
  BY InitEstablishes, NextPreserves, PTL DEF Spec
-----------------------------------------------------------------------------
(***************************************************************************)
(* What the invariant says about interrupts and about registers.           *)
(***************************************************************************)
LEMMA Placed == EInv => TypeOK
<1> SUFFICES ASSUME EInv
             PROVE  TypeOK
  OBVIOUS
<1>1. Types /\ running \in Tasks /\ cpu.pc \in Pcs /\ cpu.masked \in BOOLEAN
  BY DEF EInv, Types, Cpu
<1>2. CASE running \in Users \ torn
  <2>1. UserRuns(running) /\ user[running].pc \in UserPcs
    BY <1>1, <1>2 DEF EInv, Runs, Types, Context
  <2>2. CASE cpu.mode = "EL0"
    <3>1. cpu.pc \in UserPcs /\ ~cpu.masked
      BY <2>1, <2>2 DEF UserRuns
    <3>2. cpu.pc # "Spin"
      BY <3>1, PlacesDiffer DEF KernelPcs
    <3>3. QED
      BY <1>1, <1>2, <2>2, <3>1, <3>2 DEF TypeOK, EInv, Types, Pcs
  <2>3. CASE cpu.mode # "EL0"
    <3>1. cpu.pc \in KernelPcs \ {"Spin"}
      BY <2>1, <2>3 DEF UserRuns, KernelPcs
    <3>2. QED
      BY <1>1, <2>3, <3>1, PlacesDiffer DEF TypeOK, EInv, Types
  <2>4. QED
    BY <2>2, <2>3
<1>3. CASE running \in torn
  <2>1. cpu.pc \in KernelPcs \ {"Spin"}
    BY <1>3 DEF EInv, Runs, TornRuns, KernelPcs
  <2>2. cpu.mode = "EL0" => running \in Users /\ ~cpu.masked /\ cpu.pc = "RestoreSpsr"
    BY <1>1, <1>3 DEF EInv, Runs, TornRuns, Types
  <2>3. QED
    BY <1>1, <1>3, <2>1, <2>2, PlacesDiffer DEF TypeOK, EInv, Types
<1>4. CASE running \in Kernels
  <2>1. cpu.mode = "EL1" /\ cpu.pc \in KernelPcs
    BY <1>4 DEF EInv, Runs, KernelRuns, KernelPcs
  <2>2. QED
    BY <1>1, <1>4, <2>1, PlacesDiffer DEF TypeOK, EInv, Types
<1>5. QED
  BY <1>1, <1>2, <1>3, <1>4, PlacesDiffer

LEMMA MaskedWhereItMatters == EInv => ExceptionsInv
<1> SUFFICES ASSUME EInv
             PROVE  ExceptionsInv
  OBVIOUS
<1>1. ASSUME cpu.pc \in {"Irq", "Disabled"}
      PROVE  cpu.masked
  BY <1>1, InHandler, InCall
<1>2. ASSUME cpu.pc \in {"Restore", "RestoreSpsr", "Return"}, Len(stack[running]) = 2
      PROVE  cpu.masked
  <2>1. running \in Users \ torn \/ running \in torn \/ running \in Kernels
    BY PlacesDiffer DEF EInv, Types
  <2>2. CASE cpu.pc = "Restore"
    BY <1>2, <2>1, <2>2, InHandler
  <2>3. CASE cpu.pc = "RestoreSpsr"
    <3>1. cpu.mode = "EL1"
      BY <1>2, InEL0, Placed, PlacesDiffer DEF TypeOK, EInv, Types, Cpu
    <3>2. QED
      BY <1>2, <2>1, <2>3, <3>1, InRestoreSpsr
  <2>4. CASE cpu.pc = "Return"
    BY <1>2, <2>1, <2>4, InReturn
  <2>5. QED
    BY <1>2, <2>2, <2>3, <2>4
<1>3. running \in torn => cpu.pc \notin UserPcs
  BY InUserCode
<1>4. QED
  BY <1>1, <1>2, <1>3, Placed DEF ExceptionsInv

LEMMA RegistersAreKept == EInv => UserContextKept
BY InUserCode DEF UserContextKept

LEMMA FramesLeadBack == EInv => CallsComeBack
<1> SUFFICES ASSUME EInv, NEW t \in (alive \cap Users) \ torn
             PROVE  LET frames == stack[t] IN
                    IF (running = t /\ cpu.mode = "EL0")
                       \/ (running # t /\ registers[t] = NewRegisters(t))
                    THEN frames = <<>>
                    ELSE /\ Len(frames) \in 1 .. 2
                         /\ frames[1].elr = user[t].pc /\ frames[1].spsr = State("EL0", FALSE)
                         /\ Len(frames) = 2 => frames[2].spsr = State("EL1", FALSE)
                                              /\ frames[2].elr \in {"Call", "Restore"}
  BY DEF CallsComeBack
<1>1. t \in Tasks /\ stack[t] \in Seq(FrameSet)
  BY DEF EInv, Types
<1>2. Len(stack[t]) = 0 => stack[t] = <<>>
  <2> HIDE DEF FrameSet
  <2>1. QED
    BY <1>1
<1>3. ASSUME Called(t)
      PROVE  /\ Len(stack[t]) \in 1 .. 2
             /\ stack[t][1].elr = user[t].pc /\ stack[t][1].spsr = State("EL0", FALSE)
             /\ Len(stack[t]) = 2 => stack[t][2].spsr = State("EL1", FALSE)
                                    /\ stack[t][2].elr \in {"Call", "Restore"}
  <2>1. LeadsBack(t) /\ Len(stack[t]) \in 1 .. 2
    BY <1>3 DEF Called
  <2>2. Len(stack[t]) = 2 => IsNested(t)
    BY <1>3 DEF Called
  <2>3. QED
    BY <2>1, <2>2 DEF LeadsBack, IsNested, InUser, InKernel
<1>4. CASE running = t
  <2>1. UserRuns(t)
    BY <1>4 DEF EInv, Runs
  <2>2. CASE cpu.mode = "EL0"
    BY <1>2, <1>4, <2>1, <2>2 DEF UserRuns
  <2>3. CASE cpu.mode # "EL0"
    BY <1>3, <1>4, <2>1, <2>3 DEF UserRuns
  <2>4. QED
    BY <2>2, <2>3
<1>5. CASE running # t
  <2>1. UserSleeps(t)
    BY <1>5 DEF EInv, Sleeps
  <2>2. CASE registers[t] = NewRegisters(t)
    <3>1. registers[t].cpsr # InKernelMasked
      BY <1>1, <2>2, NewRegistersAre DEF InUser, InKernelMasked, State
    <3>2. QED
      BY <1>2, <1>5, <2>1, <2>2, <3>1 DEF UserSleeps
  <2>3. CASE registers[t] # NewRegisters(t)
    BY <1>3, <1>5, <2>1, <2>3 DEF UserSleeps
  <2>4. QED
    BY <2>2, <2>3
<1>6. QED
  BY <1>4, <1>5

\* Whoever may switch to another task has interrupts masked, also when it comes back from
\* one, the end of an interrupt in the kernel is not interrupted, and at EL0 there is user
\* code or the place where an interrupt came between elr and spsr: schedule and
\* exit_running_task (kernel/tasks.cpp) and irq_kernel_wrap (vector.S), for any tasks.
THEOREM ExceptionsInvariant == Spec => []ExceptionsInv
<1>1. QED
  BY SpecKeepsInvariant, MaskedWhereItMatters, PTL

\* A task that is back in user code, after calls, interrupts and switches in any order,
\* finds its place, its stack pointer and its registers as it left them, but for the
\* result of a call, and the lr that irq_userspace_wrap (vector.S) does not save.
THEOREM ContextIsKept == Spec => []UserContextKept
<1>1. QED
  BY SpecKeepsInvariant, RegistersAreKept, PTL

\* As long as a task is in the kernel its first frame leads back to its user code, with at
\* most one frame of an interrupt above it, unless an interrupt came on the way out of a
\* system call, after elr or elr and spsr had been restored (vector.S).
THEOREM CallsAlwaysComeBack == Spec => []CallsComeBack
<1>1. QED
  BY SpecKeepsInvariant, FramesLeadBack, PTL
=============================================================================
