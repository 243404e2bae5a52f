------------------------------- MODULE Mutex --------------------------------
(***************************************************************************)
(* Mutex (src/src/task/mutex.cpp) on top of the task manager: Lock blocks  *)
(* with Block and UnLock wakes with Wakeup, both as modelled in            *)
(* TaskManager.tla, and the timer may preempt a task between any two       *)
(* steps.  One mutex, whose resource is the one element of Resources, and  *)
(* one core.                                                               *)
(***************************************************************************)
EXTENDS TaskManager

CONSTANT
  SpuriousFailure   \* compare_exchange_weak may fail on a free mutex (LL/SC)

ASSUME SpuriousAssumption == SpuriousFailure \in BOOLEAN

VARIABLES
  locked,   \* std::atomic<bool> locked_
  owner,    \* std::atomic<Pid> owner_: a task, or NoTask for the maximum Pid
  mpc       \* mpc[t]: where task t is in Mutex code

mutexVars == <<locked, owner, mpc>>
mvars == <<vars, mutexVars>>

\* "out" and "in": outside Mutex code, without and with the mutex.
MutexPCs == {"out", "cas", "block", "own", "in", "clear", "wake"}

MInit ==
  /\ Init
  /\ locked = FALSE
  /\ owner = NoTask
  /\ mpc = [t \in Tasks |-> "out"]

MAt(c, t, l) == Calls0(c, t) /\ t \in Tasks /\ mpc[t] = l
MGoto(t, l) == mpc' = [mpc EXCEPT ![t] = l]

IsLockedByCurrentTask(t) == locked /\ owner = t

\* Lock refuses a recursive call; the task goes on with what it was doing.
Lock(c, t) ==
  /\ MAt(c, t, "out") \/ MAt(c, t, "in")
  /\ ~IsLockedByCurrentTask(t)
  /\ MGoto(t, "cas")
  /\ UNCHANGED <<vars, locked, owner>>

\* Mutant: a store that does not compare.
LockCasBlind(c, t) ==
  /\ MAt(c, t, "cas")
  /\ locked' = TRUE
  /\ MGoto(t, "own")
  /\ UNCHANGED <<vars, owner>>

\* compare_exchange_weak
LockCas(c, t) ==
  /\ MAt(c, t, "cas")
  /\ \/ /\ ~locked
        /\ locked' = TRUE
        /\ MGoto(t, "own")
     \/ /\ locked \/ SpuriousFailure
        /\ MGoto(t, "block")
        /\ UNCHANGED locked
  /\ UNCHANGED <<vars, owner>>

\* DisableInterrupt, Block; EnableInterrupt and the retry follow the wake-up.
LockBlock(c, t) ==
  /\ MAt(c, t, "block")
  /\ \E r \in Resources : Block(c, t, r, "sched_masked")
  /\ MGoto(t, "cas")
  /\ UNCHANGED <<locked, owner>>

LockOwn(c, t) ==
  /\ MAt(c, t, "own")
  /\ owner' = t
  /\ MGoto(t, "in")
  /\ UNCHANGED <<vars, locked>>

\* TryLock tries once and never blocks.
TryLock(c, t) ==
  /\ MAt(c, t, "out") \/ MAt(c, t, "in")
  /\ ~IsLockedByCurrentTask(t)
  /\ ~locked
  /\ locked' = TRUE
  /\ MGoto(t, "own")
  /\ UNCHANGED <<vars, owner>>

\* Mutant: owner_ is not cleared.
UnLockKept(c, t) ==
  /\ MAt(c, t, "in") \/ MAt(c, t, "out")
  /\ IsLockedByCurrentTask(t)
  /\ MGoto(t, "clear")
  /\ UNCHANGED <<vars, locked, owner>>

\* UnLock refuses a task that does not own the mutex, then clears owner_,
UnLock(c, t) ==
  /\ MAt(c, t, "in") \/ MAt(c, t, "out")
  /\ IsLockedByCurrentTask(t)
  /\ owner' = NoTask
  /\ MGoto(t, "clear")
  /\ UNCHANGED <<vars, locked>>

\* clears locked_,
UnLockClear(c, t) ==
  /\ MAt(c, t, "clear")
  /\ locked' = FALSE
  /\ MGoto(t, "wake")
  /\ UNCHANGED <<vars, owner>>

\* and wakes the tasks that wait in the list of the current core.
UnLockWake(c, t) ==
  /\ MAt(c, t, "wake")
  /\ \E r \in Resources :
       Wakeup(c, t, r) \/ (blocked[c][r] = <<>> /\ UNCHANGED vars)
  /\ MGoto(t, "out")
  /\ UNCHANGED <<locked, owner>>

MutexStep(c, t) ==
  \/ Lock(c, t) \/ LockCas(c, t) \/ LockBlock(c, t) \/ LockOwn(c, t)
  \/ TryLock(c, t)
  \/ UnLock(c, t) \/ UnLockClear(c, t) \/ UnLockWake(c, t)

\* The boot code creates the tasks; a task outside Mutex code may yield or sleep.
OtherStep(c) ==
  /\ \/ \E new \in Tasks : AddTask(c, Idle(c), new, c)
     \/ AddTaskEnqueue(c, Idle(c))
     \/ Schedule(c) /\ (MAt(c, running[c], "out") \/ MAt(c, running[c], "in")
                         \/ running[c] = Idle(c) \/ call[running[c]] # "none")
     \/ \E t \in Tasks, ms \in Durations :
          Sleep(c, t, ms) /\ mpc[t] \in {"out", "in"}
     \/ WakeupOne(c)
     \/ Tick(c)
     \/ \E t \in Tasks : TickWake(c, t)
     \/ TickAccount(c)
     \/ TickReschedule(c)
  /\ UNCHANGED mutexVars

MNext == \E c \in Cores : OtherStep(c) \/ \E t \in Tasks : MutexStep(c, t)

MSpec == MInit /\ [][MNext]_mvars

-----------------------------------------------------------------------------
(* Properties *)

\* The variables have their types.
MTypeOK ==
  /\ TypeOK
  /\ locked \in BOOLEAN
  /\ owner \in Tasks \union {NoTask}
  /\ mpc \in [Tasks -> MutexPCs]

\* t has won the compare-exchange and has not yet cleared locked_.
Owns(t) == mpc[t] \in {"own", "in", "clear"}

\* Two tasks never own the mutex together.
MutexExclusion == \A t, u \in Tasks : Owns(t) /\ Owns(u) => t = u

\* While a task is in its critical section the mutex knows it as its owner, so
\* that UnLock succeeds and a recursive Lock is refused; nobody else passes for
\* the owner.
OwnerKnown == \A t \in Tasks : mpc[t] = "in" <=> IsLockedByCurrentTask(t)

\* No wake-up is lost: while a task of a core is in the waiting list of the mutex,
\* somebody owns the mutex or is on its way to Wakeup (mutex.cpp, comment in Lock
\* on lost wake-ups).
NoLostWakeup ==
  \A c \in Cores, r \in Resources :
    blocked[c][r] # <<>> =>
      \/ \E t \in Tasks : Owns(t) \/ mpc[t] = "wake"
      \/ mode[c] = "wakeup"
=============================================================================
