-------------------------- MODULE InterruptsProofs --------------------------
(***************************************************************************)
(* Interrupts and system calls preserve the contexts of all tasks, for any *)
(* number of tasks, contexts and sleeps.                                   *)
(*                                                                         *)
(* The two facts that make the invariant inductive are about a sleep: the  *)
(* frame on the kernel stack is the context of the sleeper, whatever the   *)
(* interrupts did to its saved registers; and the count never runs ahead   *)
(* of the clock, even when it wraps.                                       *)
(***************************************************************************)
EXTENDS Interrupts, TLAPS

\* The frame under the sleep loop is what the sleeper goes back to.
SleeperOnStack ==
  mode = "sleep" => current_task \in alive /\ frame = context[current_task]

\* ticks does not overtake the clock before the sleep is long enough.
TicksBehindClock ==
  mode = "sleep" => elapsed >= total_ticks \/ ticks <= elapsed

IInv ==
  /\ TypeOK
  /\ ResumesExactly
  /\ WaitingRegistersAreUser
  /\ UserLand
  /\ SleeperOnStack
  /\ TicksBehindClock

-----------------------------------------------------------------------------
\* Running a task gives it a context again.
LEMMA NextContextType ==
  ASSUME NEW c \in Context
  PROVE  NextContext(c) \in Context
  BY InterruptsAssumption DEF NextContext, Context

\* The counter stays an int, and never grows by more than one.
LEMMA WrapTick ==
  ASSUME NEW n \in -(TickModulus \div 2) .. (TickModulus \div 2 - 1)
  PROVE  /\ Wrap(n + 1) \in -(TickModulus \div 2) .. (TickModulus \div 2 - 1)
         /\ Wrap(n + 1) <= n + 1
<1>1. PICK half \in Nat : half # 0 /\ TickModulus = 2 * half
  <2>1. TickModulus = 2 * (TickModulus \div 2)
    BY InterruptsAssumption
  <2>2. TickModulus \div 2 \in Nat /\ TickModulus \div 2 # 0
    BY <2>1, InterruptsAssumption
  <2> QED
    BY <2>1, <2>2
<1>2. TickModulus \div 2 = half
  BY <1>1
<1> QED
  BY <1>1, <1>2 DEF Wrap

\* sleep counts in whole ticks.
LEMMA TenthOfType ==
  ASSUME NEW n \in Int
  PROVE  TenthOf(n) \in Int
  BY DEF TenthOf

\* The gate, the kernel's pages and sti keep the other registers.
LEMMA EntryParts ==
  ASSUME NEW c \in Processor
  PROVE  /\ trap(c) \in Processor
         /\ kernel_page(c) \in Processor
         /\ enable_interrupts(c) \in Processor
         /\ [c EXCEPT !.if = FALSE] \in Processor
  BY DEF Processor, trap, kernel_page, enable_interrupts

\* task_page switches to user segments and to the directory of the task.
LEMMA TaskPageParts ==
  ASSUME NEW c \in Processor, NEW t \in Tasks
  PROVE  /\ task_page(c, t) \in Processor
         /\ task_page(c, t).seg = "user"
         /\ task_page(c, t).dir = t
  BY DEF Processor, task_page

\* iret takes ring and context from the frame and leaves the pages alone.
LEMMA IretParts ==
  ASSUME NEW c \in Processor, NEW r \in Registers
  PROVE  /\ iret(c, r) \in Processor
         /\ iret(c, r).seg = c.seg /\ iret(c, r).dir = c.dir
         /\ iret(c, r).ring = r.ring /\ iret(c, r).ctx = r.ctx
         /\ iret(c, r).if = TRUE
  BY DEF Processor, Registers, iret

\* user_mode_enter takes ring and context from the saved registers.
LEMMA EnterParts ==
  ASSUME NEW t \in Tasks, NEW r \in Registers
  PROVE  /\ user_mode_enter(t, r) \in Processor
         /\ user_mode_enter(t, r).seg = r.ring /\ user_mode_enter(t, r).dir = t
         /\ user_mode_enter(t, r).ring = r.ring
         /\ user_mode_enter(t, r).ctx = r.ctx
         /\ user_mode_enter(t, r).if = TRUE
  BY DEF Processor, Registers, user_mode_enter

\* The frame that a wrapper pushes holds registers.
LEMMA FrameType ==
  ASSUME TypeOK
  PROVE  /\ Frame \in Registers
         /\ Frame.ring = cpu.ring
         /\ Frame.ctx = cpu.ctx
         /\ \A c \in Context : /\ [Frame EXCEPT !.ctx = c] \in Registers
                               /\ [Frame EXCEPT !.ctx = c].ctx = c
                               /\ [Frame EXCEPT !.ctx = c].ring = cpu.ring
  BY DEF TypeOK, Processor, Registers, Frame

\* The processor after an interrupt: back where it was, on user pages.
LEMMA InterruptReturns ==
  ASSUME TypeOK
  PROVE  /\ Interrupt \in Processor
         /\ Interrupt.ctx = cpu.ctx /\ Interrupt.ring = cpu.ring
         /\ Interrupt.seg = "user" /\ Interrupt.dir = current_task
         /\ Interrupt.if = TRUE
<1>1. cpu \in Processor /\ current_task \in Tasks
  BY DEF TypeOK
<1> DEFINE handler == kernel_page(trap(cpu))
           page    == task_page(handler, current_task)
<1>2. trap(cpu) \in Processor
  BY <1>1, EntryParts
<1>3. handler \in Processor
  BY <1>2, EntryParts
<1> HIDE DEF handler
<1>4. page \in Processor /\ page.seg = "user" /\ page.dir = current_task
  BY <1>1, <1>3, TaskPageParts
<1> HIDE DEF page
<1>5. Interrupt = iret(page, Frame)
  BY DEF Interrupt, page, handler
<1> QED
  BY <1>4, <1>5, FrameType, IretParts

\* The processor after a system call that returns to context ctx.
Return(ctx) == iret(task_page(kernel_page(trap(cpu)), current_task),
                    [Frame EXCEPT !.ctx = ctx])

\* The processor after a sleep that returns to context ctx.
Wake(ctx) == iret(task_page([cpu EXCEPT !.if = FALSE], current_task),
                  [ring |-> "user", ctx |-> ctx])

\* A system call returns to user land.
LEMMA CallReturns ==
  ASSUME TypeOK, cpu.ring = "user", NEW ctx \in Context
  PROVE  /\ Return(ctx) \in Processor
         /\ Return(ctx).ctx = ctx /\ Return(ctx).ring = "user"
         /\ Return(ctx).seg = "user" /\ Return(ctx).dir = current_task
         /\ Return(ctx).if = TRUE
<1> DEFINE handler == kernel_page(trap(cpu))
           page    == task_page(handler, current_task)
           to      == [Frame EXCEPT !.ctx = ctx]
<1>1. cpu \in Processor /\ current_task \in Tasks
  BY DEF TypeOK
<1>2. to \in Registers /\ to.ctx = ctx /\ to.ring = "user"
  BY FrameType
<1>3. trap(cpu) \in Processor
  BY <1>1, EntryParts
<1>4. handler \in Processor
  BY <1>3, EntryParts
<1> HIDE DEF handler, to
<1>5. page \in Processor /\ page.seg = "user" /\ page.dir = current_task
  BY <1>1, <1>4, TaskPageParts
<1> HIDE DEF page
<1>6. Return(ctx) = iret(page, to)
  BY DEF Return, page, handler, to
<1>7. /\ iret(page, to) \in Processor
      /\ iret(page, to).seg = page.seg /\ iret(page, to).dir = page.dir
      /\ iret(page, to).ring = to.ring /\ iret(page, to).ctx = to.ctx
      /\ iret(page, to).if = TRUE
  BY <1>2, <1>5, IretParts
<1> QED
  BY <1>2, <1>5, <1>6, <1>7

\* The end of a sleep returns to user land, whichever pages were there.
LEMMA SleepReturns ==
  ASSUME TypeOK, NEW ctx \in Context
  PROVE  /\ Wake(ctx) \in Processor
         /\ Wake(ctx).ctx = ctx /\ Wake(ctx).ring = "user"
         /\ Wake(ctx).seg = "user" /\ Wake(ctx).dir = current_task
         /\ Wake(ctx).if = TRUE
<1> DEFINE off  == [cpu EXCEPT !.if = FALSE]
           page == task_page(off, current_task)
           to   == [ring |-> "user", ctx |-> ctx]
<1>1. cpu \in Processor /\ current_task \in Tasks
  BY DEF TypeOK
<1>2. to \in Registers /\ to.ring = "user" /\ to.ctx = ctx
  BY DEF Registers
<1>3. off \in Processor
  BY <1>1, EntryParts
<1> HIDE DEF off, to
<1>4. page \in Processor /\ page.seg = "user" /\ page.dir = current_task
  BY <1>1, <1>3, TaskPageParts
<1> HIDE DEF page
<1>5. Wake(ctx) = iret(page, to)
  BY DEF Wake, page, off, to
<1>6. /\ iret(page, to) \in Processor
      /\ iret(page, to).seg = page.seg /\ iret(page, to).dir = page.dir
      /\ iret(page, to).ring = to.ring /\ iret(page, to).ctx = to.ctx
      /\ iret(page, to).if = TRUE
  BY <1>2, <1>4, IretParts
<1> QED
  BY <1>2, <1>4, <1>5, <1>6

\* task_current_save_state stores registers, for the current task only.
LEMMA SaveStateType ==
  ASSUME TypeOK
  PROVE  /\ SaveState \in [Tasks -> Registers]
         /\ SaveState[current_task] = Frame
         /\ \A t \in Tasks : t # current_task => SaveState[t] = regs[t]
  BY FrameType DEF TypeOK, SaveState

-----------------------------------------------------------------------------
\* User code changes the context of its own task only.
LEMMA UserStepPreserves ==
  ASSUME IInv, UserStep
  PROVE  IInv'
<1>1. cpu.ctx \in Context
  BY DEF IInv, TypeOK, ResumesExactly, UserStep, User
<1>2. NextContext(cpu.ctx) \in Context
  BY <1>1, NextContextType
<1>3. TypeOK'
  BY <1>2 DEF IInv, TypeOK, Processor, UserStep
<1>4. ResumesExactly'
  BY DEF IInv, TypeOK, Processor, ResumesExactly, UserStep
<1>5. WaitingRegistersAreUser'
  BY DEF IInv, TypeOK, WaitingRegistersAreUser, UserStep
<1>6. UserLand'
  BY DEF IInv, TypeOK, Processor, UserLand, UserStep
<1>7. SleeperOnStack' /\ TicksBehindClock'
  BY DEF SleeperOnStack, TicksBehindClock, UserStep, User
<1> QED
  BY <1>3, <1>4, <1>5, <1>6, <1>7 DEF IInv

\* An interrupt with a callback disturbs nothing but the saved registers of
\* the current task, if it treats ticks and the clock well.
LEMMA InterruptedPreserves ==
  ASSUME IInv, Interrupted, TicksBehindClock',
         ticks' \in -(TickModulus \div 2) .. (TickModulus \div 2 - 1),
         elapsed' \in Int
  PROVE  IInv'
<1>1. /\ cpu' \in Processor
      /\ cpu'.ctx = cpu.ctx /\ cpu'.ring = cpu.ring
      /\ cpu'.seg = "user" /\ cpu'.dir = current_task /\ cpu'.if = TRUE
  BY InterruptReturns DEF IInv, Interrupted
<1>2. TypeOK'
  BY <1>1, SaveStateType DEF IInv, TypeOK, Interrupted
<1>3. ResumesExactly'
  BY <1>1 DEF IInv, ResumesExactly, Interrupted
<1>4. WaitingRegistersAreUser'
  BY SaveStateType DEF IInv, TypeOK, WaitingRegistersAreUser, Interrupted
<1>5. UserLand'
  BY <1>1 DEF IInv, UserLand, Interrupted
<1>6. SleeperOnStack'
  BY DEF IInv, SleeperOnStack, Interrupted
<1> QED
  BY <1>2, <1>3, <1>4, <1>5, <1>6 DEF IInv

\* The timer: the clock and the count advance together.
LEMMA TimerPreserves ==
  ASSUME IInv, TimerInterrupt
  PROVE  IInv'
<1>1. /\ ticks \in -(TickModulus \div 2) .. (TickModulus \div 2 - 1)
      /\ elapsed \in Int
      /\ total_ticks \in Int
  BY DEF IInv, TypeOK
<1>2. /\ ticks' \in -(TickModulus \div 2) .. (TickModulus \div 2 - 1)
      /\ ticks' <= ticks + 1
  BY <1>1, WrapTick DEF TimerInterrupt
<1>3. elapsed' \in Int
  BY <1>1 DEF TimerInterrupt
<1>4. TicksBehindClock'
  <2>1. SUFFICES ASSUME mode = "sleep"
                 PROVE  elapsed' >= total_ticks \/ ticks' <= elapsed'
    BY DEF TicksBehindClock, TimerInterrupt, Interrupted
  <2>2. ticks \in Int /\ ticks' \in Int
    BY <1>1, <1>2, InterruptsAssumption
  <2>3. elapsed >= total_ticks \/ ticks <= elapsed
    BY <2>1 DEF IInv, TicksBehindClock
  <2> QED
    BY <1>1, <1>2, <2>1, <2>2, <2>3 DEF TimerInterrupt
<1> QED
  BY <1>2, <1>3, <1>4, InterruptedPreserves DEF TimerInterrupt

\* The keyboard.
LEMMA KeyboardPreserves ==
  ASSUME IInv, KeyboardInterrupt
  PROVE  IInv'
<1>1. TicksBehindClock'
  BY DEF IInv, TicksBehindClock, KeyboardInterrupt, Interrupted
<1> QED
  BY <1>1, InterruptedPreserves DEF IInv, TypeOK, KeyboardInterrupt

\* An interrupt with no callback saves nothing.
LEMMA OtherInterruptPreserves ==
  ASSUME IInv, OtherInterrupt
  PROVE  IInv'
<1>1. /\ cpu' \in Processor
      /\ cpu'.ctx = cpu.ctx /\ cpu'.ring = cpu.ring
      /\ cpu'.seg = "user" /\ cpu'.dir = current_task /\ cpu'.if = TRUE
  BY InterruptReturns DEF IInv, OtherInterrupt
<1>2. TypeOK'
  BY <1>1 DEF IInv, TypeOK, OtherInterrupt
<1>3. ResumesExactly' /\ UserLand'
  BY <1>1 DEF IInv, ResumesExactly, UserLand, OtherInterrupt
<1>4. WaitingRegistersAreUser' /\ SleeperOnStack' /\ TicksBehindClock'
  BY DEF IInv, WaitingRegistersAreUser, SleeperOnStack, TicksBehindClock,
         OtherInterrupt
<1> QED
  BY <1>2, <1>3, <1>4 DEF IInv

\* A system call that returns.
LEMMA SystemCallPreserves ==
  ASSUME IInv, SystemCall
  PROVE  IInv'
<1>1. cpu.ctx \in Context /\ cpu.ring = "user"
  BY DEF IInv, TypeOK, ResumesExactly, SystemCall, User
<1>2. NextContext(cpu.ctx) \in Context
  BY <1>1, NextContextType
<1>3. /\ cpu' \in Processor
      /\ cpu'.ctx = NextContext(cpu.ctx) /\ cpu'.ring = "user"
      /\ cpu'.seg = "user" /\ cpu'.dir = current_task /\ cpu'.if = TRUE
  <2>1. TypeOK
    BY DEF IInv
  <2>2. cpu' = Return(NextContext(cpu.ctx))
    BY DEF SystemCall, Return
  <2> QED
    BY <1>1, <1>2, <2>1, <2>2, CallReturns
<1>4. TypeOK'
  BY <1>2, <1>3, SaveStateType DEF IInv, TypeOK, SystemCall
<1>5. ResumesExactly' /\ UserLand'
  BY <1>3 DEF IInv, TypeOK, ResumesExactly, UserLand, SystemCall, User
<1>6. WaitingRegistersAreUser'
  BY SaveStateType DEF IInv, TypeOK, WaitingRegistersAreUser, SystemCall
<1>7. SleeperOnStack' /\ TicksBehindClock'
  BY DEF SleeperOnStack, TicksBehindClock, SystemCall, User
<1> QED
  BY <1>4, <1>5, <1>6, <1>7 DEF IInv

\* The sleep loop starts with the sleeper's context on the stack.
LEMMA SleepBeginsPreserves ==
  ASSUME IInv, NEW millis \in Millis, SleepBegins(millis)
  PROVE  IInv'
<1>1. cpu.ctx \in Context /\ cpu.ctx = context[current_task]
  BY DEF IInv, TypeOK, ResumesExactly, SleepBegins, User
<1>2. cpu' \in Processor
  <2>1. cpu \in Processor
    BY DEF IInv, TypeOK
  <2>2. trap(cpu) \in Processor
    BY <2>1, EntryParts
  <2>3. kernel_page(trap(cpu)) \in Processor
    BY <2>2, EntryParts
  <2> QED
    BY <2>3, EntryParts DEF SleepBegins
<1>3. ticks' \in -(TickModulus \div 2) .. (TickModulus \div 2 - 1)
  <2>1. TickModulus \div 2 \in Nat /\ TickModulus \div 2 # 0
    BY InterruptsAssumption
  <2> QED
    BY <2>1 DEF SleepBegins
<1>4. total_ticks' \in Int
  BY TenthOfType, InterruptsAssumption DEF SleepBegins
<1>5. TypeOK'
  BY <1>1, <1>2, <1>3, <1>4, SaveStateType DEF IInv, TypeOK, SleepBegins
<1>6. ResumesExactly' /\ UserLand'
  BY DEF ResumesExactly, UserLand, SleepBegins
<1>7. WaitingRegistersAreUser'
  BY SaveStateType DEF IInv, TypeOK, WaitingRegistersAreUser, SleepBegins
<1>8. SleeperOnStack'
  BY <1>1 DEF IInv, UserLand, SleeperOnStack, SleepBegins, User
<1>9. TicksBehindClock'
  BY <1>4 DEF TicksBehindClock, SleepBegins
<1> QED
  BY <1>5, <1>6, <1>7, <1>8, <1>9 DEF IInv

\* The sleeper goes on from the frame on the stack.
LEMMA SleepEndsPreserves ==
  ASSUME IInv, SleepEnds
  PROVE  IInv'
<1>1. frame \in Context /\ NextContext(frame) \in Context
  BY NextContextType DEF IInv, TypeOK
<1>2. /\ cpu' \in Processor
      /\ cpu'.ctx = NextContext(frame) /\ cpu'.ring = "user"
      /\ cpu'.seg = "user" /\ cpu'.dir = current_task /\ cpu'.if = TRUE
  <2>1. TypeOK
    BY DEF IInv
  <2>2. cpu' = Wake(NextContext(frame))
    BY DEF SleepEnds, Wake
  <2> QED
    BY <1>1, <2>1, <2>2, SleepReturns
<1>3. TypeOK'
  BY <1>1, <1>2 DEF IInv, TypeOK, SleepEnds
<1>4. ResumesExactly' /\ UserLand'
  BY <1>2 DEF IInv, TypeOK, ResumesExactly, UserLand, SleeperOnStack, SleepEnds
<1>5. WaitingRegistersAreUser'
  BY DEF IInv, TypeOK, WaitingRegistersAreUser, SleepEnds
<1>6. SleeperOnStack' /\ TicksBehindClock'
  BY DEF SleeperOnStack, TicksBehindClock, SleepEnds
<1> QED
  BY <1>3, <1>4, <1>5, <1>6 DEF IInv

\* The launcher waits with the registers of its own system call.
LEMMA LaunchPreserves ==
  ASSUME IInv, NEW t \in Tasks, Launch(t)
  PROVE  IInv'
<1>1. /\ InitialRegisters \in Registers
      /\ InitialRegisters.ring = "user" /\ InitialRegisters.ctx = 0
      /\ 0 \in Context
  BY InterruptsAssumption DEF InitialRegisters, Registers, Context
<1>2. /\ cpu' \in Processor
      /\ cpu'.ctx = 0 /\ cpu'.ring = "user"
      /\ cpu'.seg = "user" /\ cpu'.dir = t /\ cpu'.if = TRUE
  BY <1>1, EnterParts DEF Launch
<1>3. /\ regs' \in [Tasks -> Registers]
      /\ \A u \in Tasks : u # t => regs'[u] = SaveState[u]
  BY <1>1, SaveStateType DEF IInv, Launch
<1>4. TypeOK'
  BY <1>1, <1>2, <1>3 DEF IInv, TypeOK, Launch
<1>5. ResumesExactly' /\ UserLand'
  BY <1>2 DEF IInv, TypeOK, ResumesExactly, UserLand, Launch
<1>6. WaitingRegistersAreUser'
  <2>1. SUFFICES ASSUME NEW u \in alive, u # t
                 PROVE  regs'[u] = [ring |-> "user", ctx |-> context'[u]]
    BY DEF WaitingRegistersAreUser, Launch
  <2>2. u \in Tasks /\ regs'[u] = SaveState[u] /\ context'[u] = context[u]
    BY <1>3, <2>1 DEF IInv, TypeOK, Launch
  <2>3. CASE u = current_task
    <3>1. SaveState[u] = [ring |-> cpu.ring, ctx |-> cpu.ctx]
      BY <2>3, SaveStateType DEF IInv, Frame
    <3>2. cpu.ring = "user" /\ cpu.ctx = context[u]
      BY <2>3 DEF IInv, ResumesExactly, Launch, User
    <3> QED
      BY <2>2, <3>1, <3>2
  <2>4. CASE u # current_task
    BY <2>1, <2>2, <2>4, SaveStateType DEF IInv, WaitingRegistersAreUser
  <2> QED
    BY <2>3, <2>4
<1>7. SleeperOnStack' /\ TicksBehindClock'
  BY DEF SleeperOnStack, TicksBehindClock, Launch, User
<1> QED
  BY <1>4, <1>5, <1>6, <1>7 DEF IInv

\* The task that task_next enters has waited with its user context.
LEMMA ExitPreserves ==
  ASSUME IInv, NEW t \in Tasks, Exit(t)
  PROVE  IInv'
<1>1. /\ t \in alive /\ t # current_task
      /\ regs[t] = [ring |-> "user", ctx |-> context[t]]
      /\ regs[t] \in Registers
  BY DEF IInv, TypeOK, WaitingRegistersAreUser, Exit
<1>2. regs[t].ring = "user" /\ regs[t].ctx = context[t]
  BY <1>1
<1>3. /\ cpu' \in Processor
      /\ cpu'.ctx = context[t] /\ cpu'.ring = "user"
      /\ cpu'.seg = "user" /\ cpu'.dir = t /\ cpu'.if = TRUE
  BY <1>1, <1>2, EnterParts DEF Exit
<1>4. TypeOK'
  BY <1>3, SaveStateType DEF IInv, TypeOK, Exit
<1>5. ResumesExactly' /\ UserLand'
  BY <1>1, <1>3 DEF IInv, TypeOK, ResumesExactly, UserLand, Exit
<1>6. WaitingRegistersAreUser'
  BY SaveStateType DEF IInv, TypeOK, WaitingRegistersAreUser, Exit
<1>7. SleeperOnStack' /\ TicksBehindClock'
  BY DEF SleeperOnStack, TicksBehindClock, Exit, User
<1> QED
  BY <1>4, <1>5, <1>6, <1>7 DEF IInv

\* After the last exit nothing runs.
LEMMA LastExitPreserves ==
  ASSUME IInv, LastExit
  PROVE  IInv'
<1>1. cpu' \in Processor
  <2>1. cpu \in Processor
    BY DEF IInv, TypeOK
  <2>2. trap(cpu) \in Processor
    BY <2>1, EntryParts
  <2> QED
    BY <2>2, EntryParts DEF LastExit
<1>2. TypeOK'
  BY <1>1, SaveStateType DEF IInv, TypeOK, LastExit
<1>3. ResumesExactly' /\ UserLand' /\ SleeperOnStack' /\ TicksBehindClock'
  BY DEF ResumesExactly, UserLand, SleeperOnStack, TicksBehindClock, LastExit
<1>4. WaitingRegistersAreUser'
  BY DEF WaitingRegistersAreUser, LastExit
<1> QED
  BY <1>2, <1>3, <1>4 DEF IInv

\* A stuttering step.
LEMMA StutterPreserves ==
  ASSUME IInv, UNCHANGED vars
  PROVE  IInv'
  BY DEF IInv, TypeOK, ResumesExactly, WaitingRegistersAreUser, UserLand,
         SleeperOnStack, TicksBehindClock, vars

-----------------------------------------------------------------------------
\* The invariant is inductive: interrupts, system calls, launches, exits and
\* sleeps preserve it.
THEOREM InterruptsInductive == Spec => []IInv
<1>1. Init => IInv
  <2>1. SUFFICES ASSUME Init PROVE IInv
    OBVIOUS
  <2>2. /\ InitialRegisters \in Registers
        /\ InitialRegisters.ring = "user" /\ InitialRegisters.ctx = 0
        /\ 0 \in Context
    BY InterruptsAssumption DEF InitialRegisters, Registers, Context
  <2>3. /\ cpu \in Processor
        /\ cpu.ctx = 0 /\ cpu.ring = "user"
        /\ cpu.seg = "user" /\ cpu.dir = current_task /\ cpu.if = TRUE
    BY <2>1, <2>2, EnterParts DEF Init
  <2>4. 0 \in -(TickModulus \div 2) .. (TickModulus \div 2 - 1)
    <3>1. TickModulus \div 2 \in Nat /\ TickModulus \div 2 # 0
      BY InterruptsAssumption
    <3> QED
      BY <3>1
  <2>5. TypeOK
    BY <2>1, <2>2, <2>3, <2>4 DEF Init, TypeOK
  <2> QED
    BY <2>1, <2>3, <2>5
    DEF Init, IInv, ResumesExactly, WaitingRegistersAreUser, UserLand,
        SleeperOnStack, TicksBehindClock
<1>2. IInv /\ [Next]_vars => IInv'
  BY UserStepPreserves, TimerPreserves, KeyboardPreserves,
     OtherInterruptPreserves, SystemCallPreserves, SleepBeginsPreserves,
     SleepEndsPreserves, LaunchPreserves, ExitPreserves, LastExitPreserves,
     StutterPreserves
  DEF Next, Halted
<1> QED
  BY <1>1, <1>2, PTL DEF Spec

\* User code goes on exactly where it was interrupted (idt.asm, task.asm).
THEOREM ContextsPreserved == Spec => []ResumesExactly
<1>1. IInv => ResumesExactly
  BY DEF IInv
<1> QED
  BY <1>1, InterruptsInductive, PTL

\* task_return and iret leave user code in ring 3, with user segments, on the
\* page directory of its own task and with interrupts on (task.asm, idt.asm).
THEOREM UserLandAlways == Spec => []UserLand
<1>1. IInv => UserLand
  BY DEF IInv
<1> QED
  BY <1>1, InterruptsInductive, PTL

\* The tick counter stays a C int through every wrap, and registers and
\* contexts keep their types, in the handlers and in sleep (timer.c, idt.asm).
THEOREM InterruptsTypeOK == Spec => []TypeOK
<1>1. IInv => TypeOK
  BY DEF IInv
<1> QED
  BY <1>1, InterruptsInductive, PTL

\* The saved registers of a task that waits are its user context.
THEOREM WaitingRegisters == Spec => []WaitingRegistersAreUser
<1>1. IInv => WaitingRegistersAreUser
  BY DEF IInv
<1> QED
  BY <1>1, InterruptsInductive, PTL

\* sleep never returns before the clock has ticked often enough.
THEOREM SleepNotEarly == Spec => []SleepsLongEnough
<1>1. IInv => SleepsLongEnough
  <2>1. SUFFICES ASSUME IInv, mode = "sleep", ticks >= total_ticks
                 PROVE  elapsed >= total_ticks
    BY DEF SleepsLongEnough
  <2>2. ticks \in Int /\ total_ticks \in Int /\ elapsed \in Int
    BY <2>1, InterruptsAssumption DEF IInv, TypeOK
  <2>3. elapsed >= total_ticks \/ ticks <= elapsed
    BY <2>1 DEF IInv, TicksBehindClock
  <2> QED
    BY <2>1, <2>2, <2>3
<1> QED
  BY <1>1, InterruptsInductive, PTL

=============================================================================
