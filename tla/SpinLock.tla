------------------------------ MODULE SpinLock ------------------------------
(***************************************************************************)
(* SpinLock and LockGuard of src/src/include/spinlock.hpp, one step per    *)
(* access to shared memory or to the interrupt flag.                       *)
(*                                                                         *)
(* Every core runs two contexts: its task code and, when its interrupts    *)
(* are enabled, an interrupt handler on top of it.  Both use the same lock *)
(* (as Schedule and TickUpdate share sched_lock).  Task code calls Lock    *)
(* and looks at the result; the handler uses LockGuard, which spins for    *)
(* ever when Lock fails.                                                   *)
(***************************************************************************)
CONSTANTS
  Cores,    \* the cores that share the lock
  NoCore    \* std::numeric_limits<size_t>::max(), "no owner"

ASSUME NoCoreAssumption == NoCore \notin Cores

Task(c) == <<c, "task">>
Isr(c)  == <<c, "isr">>
Contexts == Cores \X {"task", "isr"}

VARIABLES
  locked,             \* std::atomic_flag locked_
  core_id,            \* std::atomic<size_t> core_id_
  saved_intr_enable,  \* bool saved_intr_enable_
  intr,               \* intr[c]: the interrupt flag of core c
  isr,                \* isr[c]: core c is inside its interrupt handler
  pc,                 \* pc[x]: the next step of context x
  intr_enable,        \* intr_enable[x]: the local variable of Lock
  held,               \* held[x]: x has won test_and_set and not yet cleared it
  before,             \* before[x]: the interrupt flag when x last called Lock
  ret                 \* ret[x]: what the last Lock or UnLock of x returned

vars == <<locked, core_id, saved_intr_enable, intr, isr, pc, intr_enable,
          held, before, ret>>

\* "free" and "cs" are outside Lock/UnLock, without and with the lock; the
\* others name the next statement; "hang" is the endless loop of LockGuard.
PCs == {"free", "disable", "tas", "check", "own", "save", "cs",
        "reset", "clear", "restore", "hang"}
Results == {"none", "ok", "recursive", "not_owned"}

Init ==
  /\ locked = FALSE
  /\ core_id = NoCore
  /\ saved_intr_enable = FALSE
  /\ intr \in [Cores -> BOOLEAN]
  /\ isr = [c \in Cores |-> FALSE]
  /\ pc = [x \in Contexts |-> "free"]
  /\ intr_enable = [x \in Contexts |-> FALSE]
  /\ held = [x \in Contexts |-> FALSE]
  /\ before = [x \in Contexts |-> FALSE]
  /\ ret = [x \in Contexts |-> "none"]

\* The context that executes on core c.
Active(x) == x[2] = IF isr[x[1]] THEN "isr" ELSE "task"

At(x, l) == Active(x) /\ pc[x] = l
Goto(x, l) == pc' = [pc EXCEPT ![x] = l]

-----------------------------------------------------------------------------
(* Lock *)

\* Mutant: interrupts are disabled before their status is read.
LockEnterLate(x) ==
  /\ At(x, "free") \/ (At(x, "cs") /\ x[2] = "task")
  /\ intr_enable' = [intr_enable EXCEPT ![x] = FALSE]
  /\ before' = IF held[x] THEN before ELSE [before EXCEPT ![x] = intr[x[1]]]
  /\ Goto(x, "disable")
  /\ UNCHANGED <<locked, core_id, saved_intr_enable, intr, isr, held, ret>>

\* GetInterruptStatus.  A task that already owns the lock may call Lock again.
LockEnter(x) ==
  /\ At(x, "free") \/ (At(x, "cs") /\ x[2] = "task")
  /\ intr_enable' = [intr_enable EXCEPT ![x] = intr[x[1]]]
  /\ before' = IF held[x] THEN before ELSE [before EXCEPT ![x] = intr[x[1]]]
  /\ Goto(x, "disable")
  /\ UNCHANGED <<locked, core_id, saved_intr_enable, intr, isr, held, ret>>

\* Mutant: DisableInterrupt is forgotten.
LockDisableNot(x) ==
  /\ At(x, "disable")
  /\ Goto(x, "tas")
  /\ UNCHANGED <<locked, core_id, saved_intr_enable, intr, isr, intr_enable,
                 held, before, ret>>

LockDisable(x) ==
  /\ At(x, "disable")
  /\ intr' = [intr EXCEPT ![x[1]] = FALSE]
  /\ Goto(x, "tas")
  /\ UNCHANGED <<locked, core_id, saved_intr_enable, isr, intr_enable, held,
                 before, ret>>

\* Mutant: a store that does not look at the old value.
LockTasBlind(x) ==
  /\ At(x, "tas")
  /\ locked' = TRUE
  /\ Goto(x, "own") /\ held' = [held EXCEPT ![x] = TRUE]
  /\ UNCHANGED <<core_id, saved_intr_enable, intr, isr, intr_enable, before,
                 ret>>

\* locked_.test_and_set
LockTas(x) ==
  /\ At(x, "tas")
  /\ locked' = TRUE
  /\ IF locked
     THEN Goto(x, "check") /\ UNCHANGED held
     ELSE Goto(x, "own") /\ held' = [held EXCEPT ![x] = TRUE]
  /\ UNCHANGED <<core_id, saved_intr_enable, intr, isr, intr_enable, before,
                 ret>>

\* Recursion check in the loop body: fail when this core owns the lock,
\* otherwise pause and try again.
LockCheck(x) ==
  /\ At(x, "check")
  /\ IF core_id = x[1]
     THEN /\ intr' = [intr EXCEPT ![x[1]] = @ \/ intr_enable[x]]
          /\ ret' = [ret EXCEPT ![x] = "recursive"]
          /\ Goto(x, IF x[2] = "isr" THEN "hang"
                     ELSE IF held[x] THEN "cs" ELSE "free")
     ELSE Goto(x, "tas") /\ UNCHANGED <<intr, ret>>
  /\ UNCHANGED <<locked, core_id, saved_intr_enable, isr, intr_enable, held,
                 before>>

\* Mutant: the core identifier is not stored.
LockOwnNot(x) ==
  /\ At(x, "own")
  /\ Goto(x, "save")
  /\ UNCHANGED <<locked, core_id, saved_intr_enable, intr, isr, intr_enable,
                 held, before, ret>>

LockOwn(x) ==
  /\ At(x, "own")
  /\ core_id' = x[1]
  /\ Goto(x, "save")
  /\ UNCHANGED <<locked, saved_intr_enable, intr, isr, intr_enable, held,
                 before, ret>>

LockSave(x) ==
  /\ At(x, "save")
  /\ saved_intr_enable' = intr_enable[x]
  /\ ret' = [ret EXCEPT ![x] = "ok"]
  /\ Goto(x, "cs")
  /\ UNCHANGED <<locked, core_id, intr, isr, intr_enable, held, before>>

-----------------------------------------------------------------------------
(* UnLock *)

\* IsLockedByCurrentCore.  Only core c ever stores c in core_id_, so the two
\* loads are one step.  A task may call UnLock without owning the lock; the
\* destructor of LockGuard ignores a failure and the handler goes on.
UnLockEnter(x) ==
  /\ At(x, "cs") \/ (At(x, "free") /\ x[2] = "task")
  /\ IF locked /\ core_id = x[1]
     THEN Goto(x, "reset") /\ UNCHANGED ret
     ELSE /\ ret' = [ret EXCEPT ![x] = "not_owned"]
          /\ IF x[2] = "isr" THEN Goto(x, "free") ELSE UNCHANGED pc
  /\ UNCHANGED <<locked, core_id, saved_intr_enable, intr, isr, intr_enable,
                 held, before>>

\* Mutant: core_id_ keeps the last owner.
UnLockResetNot(x) ==
  /\ At(x, "reset")
  /\ Goto(x, "clear")
  /\ UNCHANGED <<locked, core_id, saved_intr_enable, intr, isr, intr_enable,
                 held, before, ret>>

UnLockReset(x) ==
  /\ At(x, "reset")
  /\ core_id' = NoCore
  /\ Goto(x, "clear")
  /\ UNCHANGED <<locked, saved_intr_enable, intr, isr, intr_enable, held,
                 before, ret>>

UnLockClear(x) ==
  /\ At(x, "clear")
  /\ locked' = FALSE
  /\ held' = [held EXCEPT ![x] = FALSE]
  /\ Goto(x, "restore")
  /\ UNCHANGED <<core_id, saved_intr_enable, intr, isr, intr_enable, before,
                 ret>>

\* saved_intr_enable_ is read after the lock has been given up.
UnLockRestore(x) ==
  /\ At(x, "restore")
  /\ intr' = [intr EXCEPT ![x[1]] = @ \/ saved_intr_enable]
  /\ ret' = [ret EXCEPT ![x] = "ok"]
  /\ Goto(x, "free")
  /\ UNCHANGED <<locked, core_id, saved_intr_enable, isr, intr_enable, held,
                 before>>

-----------------------------------------------------------------------------
(* The processor and the callers *)

\* An interrupt is taken: the gate clears the flag before the handler starts.
Interrupt(c) ==
  /\ intr[c] /\ ~isr[c]
  /\ isr' = [isr EXCEPT ![c] = TRUE]
  /\ intr' = [intr EXCEPT ![c] = FALSE]
  /\ UNCHANGED <<locked, core_id, saved_intr_enable, pc, intr_enable, held,
                 before, ret>>

\* The handler returns; the interrupted code had its interrupts enabled.
InterruptReturn(c) ==
  /\ At(Isr(c), "free")
  /\ isr' = [isr EXCEPT ![c] = FALSE]
  /\ intr' = [intr EXCEPT ![c] = TRUE]
  /\ UNCHANGED <<locked, core_id, saved_intr_enable, pc, intr_enable, held,
                 before, ret>>

\* Task code that does not own the lock enables or disables interrupts.
SetInterrupt(c) ==
  /\ At(Task(c), "free")
  /\ intr' = [intr EXCEPT ![c] = ~@]
  /\ UNCHANGED <<locked, core_id, saved_intr_enable, isr, pc, intr_enable,
                 held, before, ret>>

LockStep(x) ==
  LockEnter(x) \/ LockDisable(x) \/ LockTas(x) \/ LockCheck(x) \/ LockOwn(x)
    \/ LockSave(x)

UnLockStep(x) ==
  UnLockEnter(x) \/ UnLockReset(x) \/ UnLockClear(x) \/ UnLockRestore(x)

Next ==
  \/ \E x \in Contexts : LockStep(x) \/ UnLockStep(x)
  \/ \E c \in Cores : Interrupt(c) \/ InterruptReturn(c) \/ SetInterrupt(c)

Spec == Init /\ [][Next]_vars

\* A core never stops executing, a handler returns, and a critical section
\* ends: once in a while its owner calls UnLock.  Nothing is assumed of when
\* Lock is called, of when interrupts arrive or of who wins test_and_set.
Fairness ==
  /\ \A x \in Contexts :
       /\ WF_vars(LockStep(x) /\ pc[x] # "free" /\ pc[x] # "cs")
       /\ WF_vars(UnLockStep(x) /\ pc[x] # "free" /\ pc[x] # "cs")
       /\ SF_vars(UnLockEnter(x) /\ held[x])
  /\ \A c \in Cores : WF_vars(InterruptReturn(c))

FairSpec == Spec /\ Fairness

-----------------------------------------------------------------------------
(* Properties *)

\* The variables have their types.
TypeOK ==
  /\ locked \in BOOLEAN
  /\ core_id \in Cores \union {NoCore}
  /\ saved_intr_enable \in BOOLEAN
  /\ intr \in [Cores -> BOOLEAN]
  /\ isr \in [Cores -> BOOLEAN]
  /\ pc \in [Contexts -> PCs]
  /\ intr_enable \in [Contexts -> BOOLEAN]
  /\ held \in [Contexts -> BOOLEAN]
  /\ before \in [Contexts -> BOOLEAN]
  /\ ret \in [Contexts -> Results]

\* Two contexts, of one core or of two, never own the lock together.
MutualExclusion ==
  \A x, y \in Contexts : held[x] /\ held[y] => x = y

\* UnLock never answers kSpinLockNotOwned to a context that owns the lock, so
\* a critical section can always be left.  The stores of core_id_ and locked_
\* by the previous owner must not be seen by the next one.
OwnerRecognised ==
  \A x \in Contexts :
    held[x] /\ pc[x] \in {"free", "cs"} => ret[x] # "not_owned"

\* Lock answers kSpinLockRecursiveLock only to a core that owns the lock: a
\* stale core_id_ never turns a free or a foreign lock into a recursion.
RecursionIsReal ==
  [][\A x \in Contexts :
       pc[x] = "check" /\ pc'[x] \notin {"check", "tas"}
         => held[Task(x[1])] \/ held[Isr(x[1])]]_vars

\* A handler never interrupts code of its own core that owns the lock, so its
\* LockGuard never meets a recursion and never hangs the core.
NoHandlerHang ==
  \A c \in Cores : pc[Isr(c)] # "hang" /\ ~(isr[c] /\ held[Task(c)])

\* When UnLock returns, the interrupt flag is what it was when Lock was called
\* (rule "disable interrupts" in the header of spinlock.hpp).
RestoresInterrupts ==
  [][\A x \in Contexts :
       pc[x] = "restore" /\ pc'[x] = "free" => intr'[x[1]] = before[x]]_vars

\* No owner keeps the lock for ever: a core that spins in Lock is not waiting
\* for a core that waits for it.
LockAlwaysFreed == []<>(~locked)

\* The lock implements AbstractLock: the holder is the core whose context has
\* won test_and_set.
holder ==
  IF \E x \in Contexts : held[x]
  THEN (CHOOSE x \in Contexts : held[x])[1]
  ELSE NoCore

Abstract == INSTANCE AbstractLock
  WITH masked <- [c \in Cores |-> ~intr[c]]

\* Acquisition, release and every change of an interrupt flag are steps that
\* the abstract lock allows.
ImplementsAbstractLock == Abstract!ASpec
=============================================================================
