----------------------------- MODULE Interrupts -----------------------------
(***************************************************************************)
(* How the processor enters and leaves the kernel of boiOS: the interrupt  *)
(* wrappers of idt.asm, interrupt_handler and isr80h_handler of idt.c, the *)
(* saved registers and page switches of task.c, user_mode_enter of         *)
(* task.asm, and the timer of pit.c with the sleep system call.            *)
(*                                                                         *)
(* All gates are interrupt gates: a handler runs with interrupts off, from *)
(* the trap to the iret, and is one step.  The exception is sleep, which   *)
(* turns interrupts on inside the kernel and waits for the timer.  Timer   *)
(* and keyboard interrupts then come in kernel mode, in the middle of a    *)
(* system call, and their handlers treat them as if they came from a user. *)
(***************************************************************************)
EXTENDS Integers

CONSTANTS
  Tasks,         \* addresses of tasks
  Contexts,      \* a user context (ip, stack and general registers) is a
                 \* number below Contexts; running makes it the next one
  TickModulus,   \* 2^32, the range of the int ticks
  Millis         \* arguments of sleep

ASSUME InterruptsAssumption ==
  /\ Contexts \in Nat \ {0}
  /\ TickModulus \in Nat \ {0}
  /\ TickModulus % 2 = 0
  /\ Millis \subseteq Int

VARIABLES
  mode,          \* what the processor runs: user code, the loop of sleep, or
                 \* nothing any more, after a panic
  cpu,           \* the registers of the processor
  frame,         \* the context on the kernel stack under the sleep loop
  regs,          \* task->registers
  current_task,
  alive,         \* the tasks in the task list
  ticks,         \* the counter of pit.c
  total_ticks,   \* the local variable of sleep
  context,       \* history: the context in which each task left user mode
  elapsed        \* history: ticks of the clock since sleep began, up to
                 \* total_ticks

vars == <<mode, cpu, frame, regs, current_task, alive, ticks, total_ticks,
          context, elapsed>>

-----------------------------------------------------------------------------
Context == 0 .. (Contexts - 1)

NextContext(c) == (c + 1) % Contexts

\* The registers of kernel code are nobody's context.
KernelContext == -1

\* What task_save_state may store: the registers of an interrupted user, or
\* those of the sleep loop.
Registers == [ring : {"user", "kernel"}, ctx : Context \cup {KernelContext}]

\* The registers of the processor: the context, the ring of cs, the data
\* segments, the page directory and the interrupt flag.
Processor == [ctx : Context \cup {KernelContext},
              ring : {"user", "kernel"}, seg : {"user", "kernel"},
              dir : Tasks \cup {"kernel"}, if : BOOLEAN]

\* What task_init stores.
InitialRegisters == [ring |-> "user", ctx |-> 0]

\* An int as a number: the counter wraps from the largest to the smallest.
Wrap(n) == IF n >= TickModulus \div 2 THEN n - TickModulus ELSE n

\* Division of an int by ten, towards zero.
TenthOf(n) == IF n >= 0 THEN n \div 10 ELSE -((-n) \div 10)

\* What the wrapper of an interrupt has pushed when it calls the handler.
Frame == [ring |-> cpu.ring, ctx |-> cpu.ctx]

\* The gate: kernel code, in ring 0 and with interrupts off.
trap(c) == [c EXCEPT !.ctx = KernelContext, !.ring = "kernel", !.if = FALSE]

\* kernel_registers and paging_switch to kernel_chunk.
kernel_page(c) == [c EXCEPT !.seg = "kernel", !.dir = "kernel"]

\* Mutant of task_page: the page directory is not switched.
task_page_segments_only(c, t) == [c EXCEPT !.seg = "user"]

\* user_registers, and paging_switch to the directory of t.
task_page(c, t) == [c EXCEPT !.seg = "user", !.dir = t]

\* Mutant of enable_interrupts: no sti.
enable_interrupts_missing(c) == c

enable_interrupts(c) == [c EXCEPT !.if = TRUE]

\* popad and iret of a wrapper: ring and flags are those of the frame.
iret(c, r) == [c EXCEPT !.ring = r.ring, !.ctx = r.ctx, !.if = TRUE]

\* paging_switch by task_switch, and the iretd with IF or'ed in.
user_mode_enter(t, r) ==
  [ctx |-> r.ctx, ring |-> r.ring, seg |-> r.ring, dir |-> t, if |-> TRUE]

-----------------------------------------------------------------------------
\* The first task, entered by task_run_first_ever_task.
Init ==
  /\ mode = "user"
  /\ current_task \in Tasks
  /\ alive = {current_task}
  /\ regs = [t \in Tasks |-> InitialRegisters]
  /\ cpu = user_mode_enter(current_task, InitialRegisters)
  /\ frame = 0
  /\ ticks = 0
  /\ total_ticks = 0
  /\ context = [t \in Tasks |-> 0]
  /\ elapsed = 0

User == mode = "user" /\ cpu.ring = "user"

\* User code runs.
UserStep ==
  /\ User
  /\ cpu' = [cpu EXCEPT !.ctx = NextContext(cpu.ctx)]
  /\ context' = [context EXCEPT ![current_task] = NextContext(cpu.ctx)]
  /\ UNCHANGED <<mode, frame, regs, current_task, alive, ticks, total_ticks,
                 elapsed>>

\* Mutant of SaveState: the frame is not saved.
SaveStateMissing == regs

\* task_current_save_state: the frame, whatever the interrupt came from.
SaveState == [regs EXCEPT ![current_task] = Frame]

\* The processor after an interrupt_handler, which leaves by task_page.
Interrupt == iret(task_page(kernel_page(trap(cpu)), current_task), Frame)

\* An interrupt with a callback.
Interrupted ==
  /\ mode # "halted"
  /\ cpu.if
  /\ regs' = SaveState
  /\ cpu' = Interrupt
  /\ UNCHANGED <<mode, frame, current_task, alive, total_ticks, context>>

\* The timer: pit_callback counts.
TimerInterrupt ==
  /\ Interrupted
  /\ ticks' = Wrap(ticks + 1)
  /\ elapsed' = IF mode = "sleep" /\ elapsed < total_ticks
                  THEN elapsed + 1 ELSE elapsed

\* The keyboard, whose callback goes to the pages of the current task too.
KeyboardInterrupt ==
  /\ Interrupted
  /\ UNCHANGED <<ticks, elapsed>>

\* An interrupt with no callback, such as that of the disk: nothing is saved.
OtherInterrupt ==
  /\ mode # "halted"
  /\ cpu.if
  /\ cpu' = Interrupt
  /\ UNCHANGED <<mode, frame, regs, current_task, alive, ticks, total_ticks,
                 context, elapsed>>

\* A system call that returns: the result in eax makes a new context.
SystemCall ==
  /\ User
  /\ regs' = SaveState
  /\ cpu' = iret(task_page(kernel_page(trap(cpu)), current_task),
                 [Frame EXCEPT !.ctx = NextContext(cpu.ctx)])
  /\ context' = [context EXCEPT ![current_task] = NextContext(cpu.ctx)]
  /\ UNCHANGED <<mode, frame, current_task, alive, ticks, total_ticks, elapsed>>

\* Mutant of SleepBegins: isr80h_wrapper pushes the registers only after the
\* kernel has used them.
SleepBeginsPushedLate(millis) ==
  /\ User
  /\ regs' = SaveState
  /\ frame' = trap(cpu).ctx
  /\ mode' = "sleep"
  /\ cpu' = enable_interrupts(kernel_page(trap(cpu)))
  /\ ticks' = 0
  /\ total_ticks' = TenthOf(millis)
  /\ elapsed' = 0
  /\ UNCHANGED <<current_task, alive, context>>

\* Mutant of SleepBegins: sleep does not reset ticks.
SleepBeginsWithOldTicks(millis) ==
  /\ User
  /\ regs' = SaveState
  /\ frame' = cpu.ctx
  /\ mode' = "sleep"
  /\ cpu' = enable_interrupts(kernel_page(trap(cpu)))
  /\ total_ticks' = TenthOf(millis)
  /\ elapsed' = 0
  /\ UNCHANGED <<current_task, alive, ticks, context>>

\* isr80h_command11_sleep up to the loop of sleep, on the kernel's pages.
SleepBegins(millis) ==
  /\ User
  /\ regs' = SaveState
  /\ frame' = cpu.ctx
  /\ mode' = "sleep"
  /\ cpu' = enable_interrupts(kernel_page(trap(cpu)))
  /\ ticks' = 0
  /\ total_ticks' = TenthOf(millis)
  /\ elapsed' = 0
  /\ UNCHANGED <<current_task, alive, context>>

\* The loop ends: disable_interrupts, task_page, popad and iretd.  If no
\* interrupt came the kernel's pages are still there.
SleepEnds ==
  /\ mode = "sleep"
  /\ ticks >= total_ticks
  /\ mode' = "user"
  /\ cpu' = iret(task_page([cpu EXCEPT !.if = FALSE], current_task),
                 [ring |-> "user", ctx |-> NextContext(frame)])
  /\ context' = [context EXCEPT ![current_task] = NextContext(frame)]
  /\ UNCHANGED <<frame, regs, current_task, alive, ticks, total_ticks, elapsed>>

\* A program is launched: the new task runs, from its initial registers.
Launch(t) ==
  /\ User
  /\ t \in Tasks \ alive
  /\ alive' = alive \cup {t}
  /\ regs' = [SaveState EXCEPT ![t] = InitialRegisters]
  /\ current_task' = t
  /\ cpu' = user_mode_enter(t, InitialRegisters)
  /\ context' = [context EXCEPT ![t] = 0]
  /\ UNCHANGED <<mode, frame, ticks, total_ticks, elapsed>>

\* The current task exits or faults, and task_next enters another one.
Exit(t) ==
  /\ User
  /\ t \in alive \ {current_task}
  /\ alive' = alive \ {current_task}
  /\ regs' = SaveState
  /\ current_task' = t
  /\ cpu' = user_mode_enter(t, regs[t])
  /\ UNCHANGED <<mode, frame, ticks, total_ticks, context, elapsed>>

\* The last task exits: panic.
LastExit ==
  /\ User
  /\ alive = {current_task}
  /\ alive' = {}
  /\ regs' = SaveState
  /\ cpu' = kernel_page(trap(cpu))
  /\ mode' = "halted"
  /\ UNCHANGED <<frame, current_task, ticks, total_ticks, context, elapsed>>

\* idt_zero is a C function in the gate itself: its ret goes back to the
\* instruction that divided, still in ring 0 and with interrupts off.
DivideError ==
  /\ mode = "user"
  /\ cpu' = [cpu EXCEPT !.ring = "kernel", !.if = FALSE]
  /\ UNCHANGED <<mode, frame, regs, current_task, alive, ticks, total_ticks,
                 context, elapsed>>

Halted == mode = "halted" /\ UNCHANGED vars

Next ==
  \/ UserStep
  \/ TimerInterrupt \/ KeyboardInterrupt \/ OtherInterrupt
  \/ SystemCall
  \/ \E millis \in Millis : SleepBegins(millis)
  \/ SleepEnds
  \/ \E t \in Tasks : Launch(t) \/ Exit(t)
  \/ LastExit \/ Halted

(***************************************************************************)
(* The timer goes on firing, and the sleep loop, which reads ticks many    *)
(* times between two of them, sees a count that is high enough again and   *)
(* again.                                                                  *)
(***************************************************************************)
Fairness == WF_vars(TimerInterrupt) /\ SF_vars(SleepEnds)

Spec == Init /\ [][Next]_vars

FairSpec == Spec /\ Fairness

\* Programs that divide by zero too.
SpecDivide == Init /\ [][Next \/ DivideError]_vars

-----------------------------------------------------------------------------
\* The state has its types.
TypeOK ==
  /\ mode \in {"user", "sleep", "halted"}
  /\ cpu \in Processor
  /\ frame \in Context
  /\ regs \in [Tasks -> Registers]
  /\ current_task \in Tasks
  /\ alive \subseteq Tasks
  /\ ticks \in -(TickModulus \div 2) .. (TickModulus \div 2 - 1)
  /\ total_ticks \in Int
  /\ context \in [Tasks -> Context]
  /\ elapsed \in Int

(***************************************************************************)
(* User code goes on exactly where it was interrupted: through timer and   *)
(* keyboard interrupts, through a sleep with interrupts nested in it, and  *)
(* through other programs that ran in between.                             *)
(***************************************************************************)
ResumesExactly == mode = "user" => cpu.ctx = context[current_task]

(***************************************************************************)
(* "registers of task, when task is not running" (task.h:31): the saved    *)
(* registers of every task that waits are its user context.  The interrupt *)
(* handlers overwrite those of a sleeping task with kernel registers, and  *)
(* only the system call that switches away saves the right ones again.     *)
(***************************************************************************)
WaitingRegistersAreUser ==
  \A t \in alive \ {current_task} :
    regs[t] = [ring |-> "user", ctx |-> context[t]]

(***************************************************************************)
(* "leave kernel land and execute in user land" (task.asm:39): user code   *)
(* runs in ring 3, with user segments, on the page directory of its own    *)
(* task and with interrupts on.                                            *)
(***************************************************************************)
UserLand ==
  mode = "user" =>
    /\ cpu.ring = "user"
    /\ cpu.seg = "user"
    /\ cpu.dir = current_task
    /\ cpu.if
    /\ current_task \in alive

(***************************************************************************)
(* sleep does not return early: when its loop may end, the clock has       *)
(* ticked total_ticks times since the call, although ticks is shared,      *)
(* counts on between sleeps and wraps.                                     *)
(***************************************************************************)
SleepsLongEnough ==
  mode = "sleep" /\ ticks >= total_ticks => elapsed >= total_ticks

(***************************************************************************)
(* Every sleep ends and the program goes on, because sleep turns the       *)
(* interrupts on and every handler leaves them on.                         *)
(***************************************************************************)
EverySleepEnds == mode = "sleep" ~> mode = "user"

=============================================================================
