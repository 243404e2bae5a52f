--------------------------- MODULE ContextSwitch ----------------------------
(***************************************************************************)
(* Schedule after its choice, switch_to, and the timer interrupt around    *)
(* them, at the level of kernel stacks: which stack a core executes, what  *)
(* is saved in whose task_context, when interrupts are enabled, and when   *)
(* the interrupt controller is told that the interrupt is over.            *)
(*                                                                         *)
(* Which task Schedule chooses is left open: any task of the core or its   *)
(* idle task (TaskManager.tla models the choice).                          *)
(***************************************************************************)
EXTENDS Naturals, Sequences

CONSTANTS
  Cores,
  Tasks,       \* tasks other than the idle tasks
  Arch,        \* "x86_64", "riscv64" or "aarch64"
  Callers,     \* subset of {"masked", "open"}: how task code calls Schedule
  MaxFrames    \* bound on nested calls and handlers on one kernel stack

Idle(c) == <<"idle", c>>
AllTasks == Tasks \union {Idle(c) : c \in Cores}
\* The boot stack of core c, on which main or main_smp runs.
Boot(c) == <<"boot", c>>
Stacks == AllTasks \union {Boot(c) : c \in Cores}

ASSUME ContextSwitchAssumption ==
  /\ Arch \in {"x86_64", "riscv64", "aarch64"}
  /\ Callers \subseteq {"masked", "open"}
  /\ MaxFrames \in Nat
  /\ \A c \in Cores : Idle(c) \notin Tasks /\ Boot(c) \notin Tasks

VARIABLES
  home,        \* home[t]: the core whose queues t is in
  running,     \* running[c]: PerCpu::running_task
  exec,        \* exec[c]: the stack core c executes on
  stack,       \* stack[x]: unfinished calls on x, innermost last
  ctx,         \* ctx[t]: the stack that t->task_context resumes
  boot_done,   \* the static variable of Schedule, one for all cores
  intr,        \* intr[c]: interrupts are enabled
  in_service   \* in_service[c]: the timer interrupt awaits its EOI

vars == <<home, running, exec, stack, ctx, boot_done, intr, in_service>>

\* A call: Schedule, a timer handler, or the first instructions of a new thread.
\* "at" is its next step; prev and next are the local variables of Schedule.
Frame(op, at, prev, next) == [op |-> op, at |-> at, prev |-> prev, next |-> next]

Init ==
  /\ home \in [Tasks -> Cores]
  /\ running = [c \in Cores |-> Idle(c)]
  /\ exec = [c \in Cores |-> Boot(c)]
  /\ stack = [x \in Stacks |->
                IF x \in AllTasks THEN <<Frame("entry", "enter", x, x)>> ELSE <<>>]
  /\ ctx = [t \in AllTasks |-> t]
  /\ boot_done = FALSE
  /\ intr = [c \in Cores |-> Arch # "x86_64"]
  /\ in_service = [c \in Cores |-> FALSE]

Top(x) == stack[x][Len(stack[x])]
At(c, op, at) ==
  /\ stack[exec[c]] # <<>>
  /\ Top(exec[c]).op = op
  /\ Top(exec[c]).at = at

Push(x, f) == stack' = [stack EXCEPT ![x] = Append(@, f)]
Pop(x) == stack' = [stack EXCEPT ![x] = SubSeq(@, 1, Len(@) - 1)]
SetTop(x, f) == stack' = [stack EXCEPT ![x][Len(stack[x])] = f]
Step(c, at) == SetTop(exec[c], [Top(exec[c]) EXCEPT !.at = at])

\* A call of Schedule by the code on stack x.
ScheduleFrame(x) == Frame("schedule", "pick", x, x)

-----------------------------------------------------------------------------
(* Schedule *)

\* Mutant: Sleep and Mutex::Lock do not disable interrupts.
CallScheduleOpen(c, how) ==
  LET x == exec[c] IN
  /\ stack[x] = <<>>
  /\ \/ x \in Tasks /\ how \in Callers
     \/ x = Boot(c) /\ how = "open"
  /\ Push(x, ScheduleFrame(x))
  /\ UNCHANGED <<home, running, exec, ctx, boot_done, intr, in_service>>

\* Task or boot code calls Schedule: with interrupts as they are (yield, Sleep(0),
\* Block from Wait and futex, Exit, main), or after DisableInterrupt (Sleep,
\* Block from Mutex::Lock).  The idle thread never calls it.
CallSchedule(c, how) ==
  LET x == exec[c] IN
  /\ stack[x] = <<>>
  /\ \/ x \in Tasks /\ how \in Callers
     \/ x = Boot(c) /\ how = "open"
  /\ intr' = IF how = "masked" THEN [intr EXCEPT ![c] = FALSE] ELSE intr
  /\ Push(x, ScheduleFrame(x))
  /\ UNCHANGED <<home, running, exec, ctx, boot_done, in_service>>

\* The locked region: choose the next task and make it running_task.  UnLock puts
\* the interrupt flag back to what it was.
Pick(c) ==
  /\ At(c, "schedule", "pick")
  /\ \E next \in {t \in Tasks : home[t] = c} \union {Idle(c)} :
       /\ running' = [running EXCEPT ![c] = next]
       /\ SetTop(exec[c], Frame("schedule", "boot", running[c], next))
  /\ UNCHANGED <<home, exec, ctx, boot_done, intr, in_service>>

\* Mutant: the boot code is saved into current->task_context as well.
BootCheckNone(c) ==
  /\ At(c, "schedule", "boot")
  /\ boot_done' = TRUE
  /\ Step(c, "mask")
  /\ UNCHANGED <<home, running, exec, ctx, intr, in_service>>

\* The first Schedule saves into boot_context instead of current->task_context.
BootCheck(c) ==
  LET f == Top(exec[c]) IN
  /\ At(c, "schedule", "boot")
  /\ boot_done' = TRUE
  /\ SetTop(exec[c], Frame("schedule", "mask",
                           IF boot_done THEN f.prev ELSE Boot(c), f.next))
  /\ UNCHANGED <<home, running, exec, ctx, intr, in_service>>

Mask(c) ==
  /\ At(c, "schedule", "mask")
  /\ intr' = [intr EXCEPT ![c] = FALSE]
  /\ Step(c, "switch")
  /\ UNCHANGED <<home, running, exec, ctx, boot_done, in_service>>

\* switch_to(prev_ctx, next->task_context), or nothing when next is current.
Switch(c) ==
  LET x == exec[c]  f == Top(x) IN
  /\ At(c, "schedule", "switch")
  /\ IF f.prev = f.next
     THEN UNCHANGED <<ctx, exec>>
     ELSE /\ ctx' = IF f.prev \in AllTasks THEN [ctx EXCEPT ![f.prev] = x] ELSE ctx
          /\ exec' = [exec EXCEPT ![c] = ctx[f.next]]
  /\ Step(c, "enable")
  /\ UNCHANGED <<home, running, boot_done, intr, in_service>>

\* Mutant: EnableInterrupt is forgotten.
EnableNot(c) ==
  /\ At(c, "schedule", "enable")
  /\ Pop(exec[c])
  /\ UNCHANGED <<home, running, exec, ctx, boot_done, intr, in_service>>

\* Back on this stack: EnableInterrupt and return.
Enable(c) ==
  /\ At(c, "schedule", "enable")
  /\ intr' = [intr EXCEPT ![c] = TRUE]
  /\ Pop(exec[c])
  /\ UNCHANGED <<home, running, exec, ctx, boot_done, in_service>>

\* kernel_thread_entry: only the x86_64 version enables interrupts.
ThreadEntry(c) ==
  /\ At(c, "entry", "enter")
  /\ intr' = IF Arch = "x86_64" THEN [intr EXCEPT ![c] = TRUE] ELSE intr
  /\ Pop(exec[c])
  /\ UNCHANGED <<home, running, exec, ctx, boot_done, in_service>>

-----------------------------------------------------------------------------
(* The timer interrupt *)

\* The processor takes the interrupt on the current stack and masks interrupts.
\* Inside the locked region of Schedule they are masked already.
Irq(c) ==
  LET x == exec[c] IN
  /\ intr[c] /\ ~in_service[c]
  /\ ~At(c, "schedule", "pick")
  /\ Len(stack[x]) < MaxFrames
  /\ intr' = [intr EXCEPT ![c] = FALSE]
  /\ in_service' = [in_service EXCEPT ![c] = TRUE]
  /\ Push(x, Frame("irq", "ack", x, x))
  /\ UNCHANGED <<home, running, exec, ctx, boot_done>>

\* Mutant: no EOI before TickUpdate.
IrqAckNot(c) ==
  /\ At(c, "irq", "ack")
  /\ Step(c, "handler")
  /\ UNCHANGED <<home, running, exec, ctx, boot_done, intr, in_service>>

\* x86_64 sends the EOI and riscv64 rearms the timer before TickUpdate; aarch64
\* does so only after the handler has returned.
IrqAck(c) ==
  /\ At(c, "irq", "ack")
  /\ in_service' = [in_service EXCEPT ![c] = Arch = "aarch64"]
  /\ Step(c, "handler")
  /\ UNCHANGED <<home, running, exec, ctx, boot_done, intr>>

\* TickUpdate, which calls Schedule when it has to preempt: never before the
\* first Schedule of the core, when nobody sleeps and no task is kRunning.
IrqHandler(c) ==
  LET x == exec[c]
      left == [Top(x) EXCEPT !.at = "leave"]
      below == SubSeq(stack[x], 1, Len(stack[x]) - 1)
  IN
  /\ At(c, "irq", "handler")
  /\ \/ stack' = [stack EXCEPT ![x] = Append(below, left)]
     \/ /\ x # Boot(c) \/ below # <<>>
        /\ stack' = [stack EXCEPT ![x] = below \o <<left, ScheduleFrame(x)>>]
  /\ UNCHANGED <<home, running, exec, ctx, boot_done, intr, in_service>>

\* The handler returns to the interrupted code, which had interrupts enabled.
IrqLeave(c) ==
  /\ At(c, "irq", "leave")
  /\ in_service' = IF Arch = "aarch64" THEN [in_service EXCEPT ![c] = FALSE]
                   ELSE in_service
  /\ intr' = [intr EXCEPT ![c] = TRUE]
  /\ Pop(exec[c])
  /\ UNCHANGED <<home, running, exec, ctx, boot_done>>

Next ==
  \E c \in Cores :
    \/ \E how \in {"masked", "open"} : CallSchedule(c, how)
    \/ Pick(c) \/ BootCheck(c) \/ Mask(c) \/ Switch(c) \/ Enable(c)
    \/ ThreadEntry(c)
    \/ Irq(c) \/ IrqAck(c) \/ IrqHandler(c) \/ IrqLeave(c)

Spec == Init /\ [][Next]_vars

-----------------------------------------------------------------------------
(* Properties *)

\* Core c executes thread code: no Schedule, handler or entry code is unfinished.
InThread(c) == exec[c] \in AllTasks /\ stack[exec[c]] = <<>>

\* The variables have their types.
TypeOK ==
  /\ home \in [Tasks -> Cores]
  /\ running \in [Cores -> AllTasks]
  /\ exec \in [Cores -> Stacks]
  /\ \A x \in Stacks : \A i \in DOMAIN stack[x] :
       /\ stack[x][i].op \in {"schedule", "irq", "entry"}
       /\ stack[x][i].prev \in Stacks /\ stack[x][i].next \in Stacks
  /\ ctx \in [AllTasks -> Stacks]
  /\ boot_done \in BOOLEAN
  /\ intr \in [Cores -> BOOLEAN]
  /\ in_service \in [Cores -> BOOLEAN]

\* The task_context of a task resumes the task's own stack, and thread code is
\* executed on the stack of running_task: a switch never mixes up two threads
\* (schedule.cpp, comments on boot_context and on the switch).
OwnContext ==
  /\ \A t \in AllTasks : ctx[t] = t
  /\ \A c \in Cores : InThread(c) => exec[c] = running[c]

\* No handler, and so no nested Schedule, runs between the store of running_task
\* and switch_to (schedule.cpp, comment before DisableInterrupt).
NoNestedSchedule ==
  \A x \in Stacks : \A i \in DOMAIN stack[x] :
    i < Len(stack[x]) /\ stack[x][i].op = "schedule" => stack[x][i].at = "enable"

\* Thread code runs with interrupts enabled, so that the timer can preempt it
\* (arch.h, TimerInit).
ThreadsPreemptible == \A c \in Cores : InThread(c) => intr[c]

\* No timer interrupt is left without its EOI while thread code runs: the timer
\* goes on ticking after a handler has switched to another task.
TimerAcknowledged == \A c \in Cores : InThread(c) => ~in_service[c]
=============================================================================
