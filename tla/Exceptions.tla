----------------------------- MODULE Exceptions -----------------------------
(***************************************************************************)
(* Entering and leaving the AArch64 kernel, and the switch of tasks        *)
(* (kernel/arch/aarch64/vector.S, switch.S, exception.cpp, processor.hpp,  *)
(* Task::start in kernel/tasks.cpp).  AArch64 is what the Makefile builds  *)
(* by default.                                                             *)
(*                                                                         *)
(* x0 stands for the general registers that handlers clobber.  The frames  *)
(* that the wraps push onto a task's kernel stack are a sequence; sp is    *)
(* its length.  What C code keeps on the stack is below the frames.  Which *)
(* task runs next is left to the scheduler: any may.                       *)
(***************************************************************************)
EXTENDS Naturals, Sequences, FiniteSets

CONSTANTS
  Users,     \* user tasks
  Kernels,   \* kernel tasks: spin
  UserPcs,   \* places in user code
  UserLrs    \* what a user task has in its link register

Tasks == Users \cup Kernels

\* Places in the kernel.
KernelPcs ==
  {"Spin", "Entered", "Call", "Disabled", "Irq", "Restore", "RestoreSpsr", "Return", "Halt"}

ASSUME ExceptionsAssumption ==
  /\ Users \cap Kernels = {} /\ Kernels # {}
  /\ UserPcs # {} /\ UserPcs \cap KernelPcs = {} /\ UserLrs # {}

VARIABLES
  cpu,        \* pc, mode, masked (DAIF), x0, lr, sp_el0, and the banked elr and spsr
  running,    \* the task that runs
  alive,      \* tasks that have not exited
  registers,  \* m_registers of every task
  stack,      \* frames on the kernel stack of every task
  slot,       \* the lr that the first frame had at the top of that stack
  user,       \* history: what a user task must find in its registers
  lost,       \* history: user tasks whose lr is another one since an interrupt
  torn        \* history: tasks interrupted on the way out of a system call

vars == <<cpu, running, alive, registers, stack, slot, user, lost, torn>>

State(mode, masked) == [mode |-> mode, masked |-> masked]
NoLr == "stop"  \* kernel_lr

\* Registers::Registers: what a task starts with.
NewRegisters(t) ==
  IF t \in Users
  THEN [cpsr |-> State("EL0", FALSE), pc |-> CHOOSE p \in UserPcs : TRUE, user_sp |-> t]
  ELSE [cpsr |-> State("EL1", FALSE), pc |-> "Spin", user_sp |-> t]

Push(t, frame) == stack' = [stack EXCEPT ![t] = Append(@, frame)]
Top(t) == stack[t][Len(stack[t])]

\* Mutant: sp is not moved back.
PoppedNot(t) == stack[t]
Popped(t) == IF stack[t] = <<>> THEN <<>> ELSE SubSeq(stack[t], 1, Len(stack[t]) - 1)
-----------------------------------------------------------------------------
\* Mutant: interrupts are unmasked in the state that is saved.
_task_saveUnmasked(t) ==
  [registers[t] EXCEPT
     !.cpsr = State("EL1", FALSE),
     !.pc = IF cpu.pc = "Irq" THEN "Restore" ELSE cpu.pc,
     !.user_sp = IF t \in Users THEN cpu.sp_el0 ELSE @]

\* The task returns from schedule() when it is switched to again.
_task_save(t) ==
  [registers[t] EXCEPT
     !.cpsr = State("EL1", cpu.masked),
     !.pc = IF cpu.pc = "Irq" THEN "Restore" ELSE cpu.pc,
     !.user_sp = IF t \in Users THEN cpu.sp_el0 ELSE @]

\* Mutant: the user stack pointer is left as it is.
_task_startSameSp(t) ==
  cpu' = [cpu EXCEPT !.elr = registers[t].pc, !.spsr = registers[t].cpsr,
                     !.pc = registers[t].pc, !.mode = registers[t].cpsr.mode,
                     !.masked = registers[t].cpsr.masked, !.x0 = "Zero", !.lr = NoLr]

\* Ends in an eret.
_task_start(t) ==
  cpu' = [cpu EXCEPT !.elr = registers[t].pc, !.spsr = registers[t].cpsr,
                     !.pc = registers[t].pc, !.mode = registers[t].cpsr.mode,
                     !.masked = registers[t].cpsr.masked, !.x0 = "Zero", !.lr = NoLr,
                     !.sp_el0 = IF t \in Users THEN registers[t].user_sp ELSE @]

\* schedule: nothing happens if the running task is picked.
Schedule(t) ==
  /\ cpu.pc \in {"Irq", "Disabled"}
  /\ t \in alive /\ t # running
  /\ registers' = [registers EXCEPT ![running] = _task_save(running)]
  /\ _task_start(t)
  /\ running' = t
  /\ UNCHANGED <<alive, stack, slot, user, lost, torn>>

\* exit_running_task: nothing is saved.
Exit(t) ==
  /\ cpu.pc = "Disabled"
  /\ t \in alive /\ t # running
  /\ alive' = alive \ {running}
  /\ _task_start(t)
  /\ running' = t
  /\ UNCHANGED <<registers, stack, slot, user, lost, torn>>
-----------------------------------------------------------------------------
\* The processor takes an exception to EL1, which masks interrupts.
Taken(pc) ==
  cpu' = [cpu EXCEPT !.elr = cpu.pc, !.spsr = State(cpu.mode, cpu.masked),
                     !.pc = pc, !.mode = "EL1", !.masked = TRUE,
                     !.x0 = "Kernel", !.lr = NoLr]

\* What a wrap saves.
Frame(lr) ==
  [x0 |-> cpu.x0, lr |-> lr, elr |-> cpu.pc, spsr |-> State(cpu.mode, cpu.masked)]

\* synchronous_userspace_wrap.
Svc ==
  /\ cpu.pc \in UserPcs
  /\ Taken("Entered")
  /\ Push(running, Frame(cpu.lr))
  /\ slot' = [slot EXCEPT ![running] = cpu.lr]
  /\ UNCHANGED <<running, alive, registers, user, lost, torn>>

\* Other exceptions from EL0 end in a panic; of kernel code that runs there as well, which
\* may not write spsr_el1.
Fault ==
  /\ cpu.mode = "EL0"
  /\ Taken("Halt")
  /\ Push(running, Frame(cpu.lr))
  /\ slot' = [slot EXCEPT ![running] = cpu.lr]
  /\ UNCHANGED <<running, alive, registers, user, lost, torn>>

\* irq_userspace_wrap: it does not store lr, so the frame has what was there before.
IrqFromUser ==
  /\ cpu.mode = "EL0" /\ ~cpu.masked
  /\ Taken("Irq")
  /\ Push(running, Frame(slot[running]))
  /\ lost' = lost \cup {running}
  /\ UNCHANGED <<running, alive, registers, slot, user, torn>>

KernelFrame == Frame(cpu.lr)

\* irq_kernel_wrap: the code in the kernel may be a kernel task, a system call, or the
\* way out of one.
IrqFromKernel ==
  /\ cpu.mode = "EL1" /\ ~cpu.masked
  /\ Taken("Irq")
  /\ Push(running, KernelFrame)
  /\ torn' = IF cpu.pc \in {"RestoreSpsr", "Return"} THEN torn \cup {running} ELSE torn
  /\ UNCHANGED <<running, alive, registers, slot, user, lost>>

\* interrupts_handle_irq, without a switch.
IrqDone ==
  /\ cpu.pc = "Irq"
  /\ cpu' = [cpu EXCEPT !.pc = "Restore"]
  /\ UNCHANGED <<running, alive, registers, stack, slot, user, lost, torn>>

\* The end of a wrap first restores the return state, one register after the other and
\* with interrupts as they are ...
Restore ==
  /\ cpu.pc = "Restore"
  /\ cpu' = [cpu EXCEPT !.elr = Top(running).elr, !.pc = "RestoreSpsr"]
  /\ UNCHANGED <<running, alive, registers, stack, slot, user, lost, torn>>
RestoreSpsr ==
  /\ cpu.pc = "RestoreSpsr" /\ cpu.mode = "EL1"
  /\ cpu' = [cpu EXCEPT !.spsr = Top(running).spsr, !.pc = "Return"]
  /\ UNCHANGED <<running, alive, registers, stack, slot, user, lost, torn>>

\* ... and then the registers.  Above the last frame there is no telling what is loaded.
Return ==
  /\ cpu.pc = "Return"
  /\ cpu' = [cpu EXCEPT !.pc = cpu.elr, !.mode = cpu.spsr.mode, !.masked = cpu.spsr.masked,
                        !.x0 = IF stack[running] = <<>> THEN "Kernel" ELSE Top(running).x0,
                        !.lr = IF stack[running] = <<>> THEN NoLr ELSE Top(running).lr]
  /\ stack' = [stack EXCEPT ![running] = Popped(running)]
  /\ UNCHANGED <<running, alive, registers, slot, user, lost, torn>>
-----------------------------------------------------------------------------
\* The handler writes the result of handle_syscall to the x0 that is restored.
Result(x0) ==
  /\ cpu' = [cpu EXCEPT !.pc = "Restore"]
  /\ stack' = [stack EXCEPT ![running][Len(stack[running])].x0 = x0]
  /\ user' = [user EXCEPT ![running].x0 = x0]
  /\ UNCHANGED <<running, alive, registers, slot, lost, torn>>

\* handle_syscall: an unknown number returns at once, with interrupts still masked.
Reject == cpu.pc = "Entered" /\ Result("Error")

\* The temporary InterruptDisabler of running_task unmasks interrupts when it is gone.
Accept ==
  /\ cpu.pc = "Entered"
  /\ cpu' = [cpu EXCEPT !.pc = "Call", !.masked = FALSE]
  /\ UNCHANGED <<running, alive, registers, stack, slot, user, lost, torn>>

\* InterruptDisabler around what reschedules, and its destructor.
Disable ==
  /\ cpu.pc = "Call"
  /\ cpu' = [cpu EXCEPT !.pc = "Disabled", !.masked = TRUE]
  /\ UNCHANGED <<running, alive, registers, stack, slot, user, lost, torn>>
Enable ==
  /\ cpu.pc = "Disabled"
  /\ cpu' = [cpu EXCEPT !.pc = "Call", !.masked = FALSE]
  /\ UNCHANGED <<running, alive, registers, stack, slot, user, lost, torn>>

Complete == cpu.pc = "Call" /\ Result("Result")

\* User code goes on, and calls and returns.
UserStep(pc, lr) ==
  /\ cpu.pc \in UserPcs
  /\ cpu' = [cpu EXCEPT !.pc = pc, !.lr = lr, !.x0 = "Own"]
  /\ user' = [user EXCEPT ![running] = [pc |-> pc, lr |-> lr, x0 |-> "Own"]]
  /\ lost' = lost \ {running}
  /\ UNCHANGED <<running, alive, registers, stack, slot, torn>>
-----------------------------------------------------------------------------
\* start_scheduler starts the first task, a user task, from the kernel's own stack.
Init ==
  /\ running \in Users
  /\ alive = Tasks
  /\ registers = [t \in Tasks |-> NewRegisters(t)]
  /\ stack = [t \in Tasks |-> <<>>]
  /\ slot = [t \in Tasks |-> "stale"]
  /\ cpu = [pc |-> NewRegisters(running).pc, mode |-> "EL0", masked |-> FALSE,
            x0 |-> "Zero", lr |-> NoLr, sp_el0 |-> running,
            elr |-> NewRegisters(running).pc, spsr |-> NewRegisters(running).cpsr]
  /\ user = [t \in Users |-> [pc |-> NewRegisters(t).pc, lr |-> NoLr, x0 |-> "Zero"]]
  /\ lost = {}
  /\ torn = {}

Next ==
  \/ \E t \in Tasks : Schedule(t) \/ Exit(t)
  \/ Svc \/ Fault \/ Reject \/ Accept \/ Disable \/ Enable \/ Complete
  \/ IrqFromUser \/ IrqFromKernel \/ IrqDone
  \/ Restore \/ RestoreSpsr \/ Return
  \/ \E pc \in UserPcs, lr \in UserLrs : UserStep(pc, lr)

Spec == Init /\ [][Next]_vars
-----------------------------------------------------------------------------
\* The type invariant: user code runs at EL0, and at EL0 nothing but user code runs, unless
\* an interrupt came between the restoring of elr and of spsr: then that place itself.
TypeOK ==
  /\ running \in alive /\ Kernels \subseteq alive
  /\ cpu.pc \in UserPcs \cup KernelPcs /\ cpu.masked \in BOOLEAN
  /\ cpu.pc \in UserPcs => cpu.mode = "EL0"
  /\ cpu.mode = "EL0" =>
       /\ running \in Users /\ ~cpu.masked
       /\ cpu.pc \in UserPcs \/ (cpu.pc = "RestoreSpsr" /\ running \in torn)
  /\ cpu.pc = "Spin" => running \in Kernels

\* Whoever may reschedule has interrupts masked, also when it comes back from another
\* task: InterruptsDisabledTag.  A frame that is restored on the way out of an interrupt
\* is restored with interrupts masked.  A task whose way out of a call was interrupted
\* once the return state was being restored never gets back to its user code.
ExceptionsInv ==
  /\ TypeOK
  /\ cpu.pc \in {"Irq", "Disabled"} => cpu.masked
  /\ cpu.pc \in {"Restore", "RestoreSpsr", "Return"} /\ Len(stack[running]) = 2 => cpu.masked
  /\ running \in torn => cpu.pc \notin UserPcs

\* A task that is back in user code finds its registers as it left them, but for the
\* result of a call: "Save corruptible registers" (vector.S).  Its lr is kept by calls;
\* only after an interrupt in user code it may be another one, until it is next set.
UserContextKept ==
  cpu.pc \in UserPcs =>
    /\ cpu.sp_el0 = running
    /\ cpu.pc = user[running].pc /\ cpu.x0 = user[running].x0
    /\ running \in lost \/ cpu.lr = user[running].lr

\* While a task is in the kernel, its first frame leads back to where it was in user
\* code, and what interrupted the kernel is one frame more; unless an interrupt came on the
\* way out of a call, after elr had been restored, or elr and spsr.
CallsComeBack ==
  \A t \in (alive \cap Users) \ torn :
    LET frames == stack[t] IN
    IF (running = t /\ cpu.mode = "EL0") \/ (running # t /\ registers[t] = NewRegisters(t))
    THEN frames = <<>>
    ELSE /\ Len(frames) \in 1 .. 2
         /\ frames[1].elr = user[t].pc /\ frames[1].spsr = State("EL0", FALSE)
         /\ Len(frames) = 2 => frames[2].spsr = State("EL1", FALSE)
                              /\ frames[2].elr \in {"Call", "Restore"}
=============================================================================
