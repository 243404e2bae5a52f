------------------------------ MODULE Process -------------------------------
(***************************************************************************)
(* The life of a task: created and added (AddTask, Clone), finished (Exit),*)
(* reaped (Wait, ReapTask), with the global task table and the parent link *)
(* between processes.  Sources: src/src/task/{clone,exit,wait}.cpp, and    *)
(* AddTask, ReapTask and ReparentChildren of src/src/task/task_manager.cpp.*)
(*                                                                         *)
(* A pid is identified with its task: pids are never used twice.  Which    *)
(* ready task of its core Schedule picks is left open (TaskManager.tla     *)
(* models the choice), and so are page tables and exit codes.  pgid is     *)
(* never set, so Wait(0) matches what Wait(-1) matches.  Memory of a       *)
(* deleted task keeps its contents: the heap never reuses a block          *)
(* (Allocator.tla).                                                        *)
(***************************************************************************)
CONSTANTS
  Cores,
  Tasks,      \* all tasks that ever exist, the idle tasks excepted
  Roots,      \* tasks that create_test_tasks has added on the cores
  InitTask,   \* the task with pid 1 (kInitPid), the first one added
  NoTask,     \* pid 0, a null pointer, the idle task of a core
  AnyChild    \* pid -1 of Wait

ASSUME ProcessAssumption ==
  /\ InitTask \in Roots
  /\ Roots \subseteq Tasks
  /\ NoTask \notin Tasks
  /\ AnyChild \notin Tasks
  /\ AnyChild # NoTask

VARIABLES
  status,     \* TaskControlBlock::status
  home,       \* the core in whose queues the task is
  parent,     \* parent_pid
  tgid,       \* thread group id
  table,      \* task_table_
  freed,      \* tasks that have been deleted
  queued,     \* tasks in a ready queue
  running,    \* running[c]: PerCpu::running_task
  pc,         \* pc[t]: where t is in the kernel
  arg         \* arg[t]: the task t is adding, cloning or reaping, or waits for

vars == <<status, home, parent, tgid, table, freed, queued, running, pc, arg>>

Status == {"UnInit", "Ready", "Running", "Blocked", "Zombie", "Exited"}
Dead == {"Zombie", "Exited"}
\* Exit holds the lock of its core; the spinning AddTask and the hanging
\* LockGuard run with interrupts disabled as well.
Locked == {"reparent", "mark", "notify", "reap", "free", "leave", "deadlock"}
Masked == Locked \union {"enqueue"}
PCs == Masked \union
       {"user", "added", "clone", "insert", "halted", "block", "erase", "delete"}

Init ==
  /\ home \in {h \in [Tasks -> Cores] : \A t \in Tasks \ Roots : h[t] = h[InitTask]}
  /\ status = [t \in Tasks |-> IF t \in Roots THEN "Ready" ELSE "UnInit"]
  /\ parent = [t \in Tasks |-> NoTask]
  /\ tgid = [t \in Tasks |-> IF t \in Roots THEN t ELSE NoTask]
  /\ table = Roots
  /\ freed = {}
  /\ queued = Roots
  /\ running = [c \in Cores |-> NoTask]
  /\ pc = [t \in Tasks |-> "user"]
  /\ arg = [t \in Tasks |-> NoTask]

\* t runs on c and is about to execute label l.
At(c, t, l) == running[c] = t /\ t # NoTask /\ pc[t] = l
Goto(t, l) == pc' = [pc EXCEPT ![t] = l]
CallOn(t, l, n) == Goto(t, l) /\ arg' = [arg EXCEPT ![t] = n]
Return(t) == CallOn(t, "user", NoTask)
LockHeld(c) == running[c] # NoTask /\ pc[running[c]] \in Locked
IsThreadGroupLeader(t) == tgid[t] = t

-----------------------------------------------------------------------------
(* Schedule *)

\* Mutant: the current task is queued again whatever its status.
RequeueBlind(c) == running[c] # NoTask

\* Only a task that still runs goes back to its queue.
Requeue(c) == running[c] # NoTask /\ status[running[c]] = "Running"

\* st and q are the statuses and the queues once the current task is dealt with.
SwitchTo(c, st, q) ==
  LET ready == {n \in q : home[n] = c}
  IN  \/ /\ ready = {}
         /\ running' = [running EXCEPT ![c] = NoTask]
         /\ status' = st
         /\ queued' = q
      \/ \E n \in ready :
           /\ running' = [running EXCEPT ![c] = n]
           /\ status' = [st EXCEPT ![n] = "Running"]
           /\ queued' = q \ {n}

DoSchedule(c) ==
  IF Requeue(c)
    THEN SwitchTo(c, [status EXCEPT ![running[c]] = "Ready"], queued \union {running[c]})
    ELSE SwitchTo(c, status, queued)

\* sys_yield, sys_sleep(0) or a tick that preempts the task.
Schedule(c) ==
  /\ running[c] # NoTask => pc[running[c]] \notin Masked
  /\ DoSchedule(c)
  /\ UNCHANGED <<home, parent, tgid, table, freed, pc, arg>>

-----------------------------------------------------------------------------
(* AddTask *)

\* new TaskControlBlock, with parent_pid set by its creator or not, alone or in
\* the thread group of its creator, then AddTask: into the table, and kReady.  h
\* is the first core of its affinity, or the core of the creator.
AddTask(c, t, n, p, thread, h) ==
  /\ At(c, t, "user")
  /\ status[n] = "UnInit" /\ n \notin freed
  /\ status' = [status EXCEPT ![n] = "Ready"]
  /\ home' = [home EXCEPT ![n] = h]
  /\ parent' = [parent EXCEPT ![n] = p]
  /\ tgid' = [tgid EXCEPT ![n] = IF thread THEN tgid[t] ELSE n]
  /\ table' = table \union {n}
  /\ CallOn(t, "added", n)
  /\ UNCHANGED <<freed, queued, running>>

\* The constructor found no memory for the stack and set kExited: AddTask, which
\* asserts kUnInit, stops the caller for good; the timer still preempts it.
AddTaskFails(c, t, n, p, thread) ==
  /\ At(c, t, "user")
  /\ status[n] = "UnInit" /\ n \notin freed
  /\ status' = [status EXCEPT ![n] = "Exited"]
  /\ parent' = [parent EXCEPT ![n] = p]
  /\ tgid' = [tgid EXCEPT ![n] = IF thread THEN tgid[t] ELSE NoTask]
  /\ CallOn(t, "halted", n)
  /\ UNCHANGED <<home, table, freed, queued, running>>

\* Lock disables the interrupts and spins while an Exit holds the lock.
AddTaskLock(c, t) ==
  /\ At(c, t, "added")
  /\ Goto(t, "enqueue")
  /\ UNCHANGED <<status, home, parent, tgid, table, freed, queued, running, arg>>

AddTaskEnqueue(c, t) ==
  /\ At(c, t, "enqueue")
  /\ ~LockHeld(home[arg[t]])
  /\ queued' = queued \union {arg[t]}
  /\ Return(t)
  /\ UNCHANGED <<status, home, parent, tgid, table, freed, running>>

-----------------------------------------------------------------------------
(* Clone *)

\* A new task with its own pid, already kReady.  sibling: kCloneParent.
Clone(c, t, n, thread, sibling) ==
  /\ At(c, t, "user")
  /\ status[n] = "UnInit" /\ n \notin freed
  /\ status' = [status EXCEPT ![n] = "Ready"]
  /\ parent' = [parent EXCEPT ![n] = IF sibling THEN parent[t] ELSE t]
  /\ tgid' = [tgid EXCEPT ![n] = IF thread THEN tgid[t] ELSE n]
  /\ CallOn(t, "clone", n)
  /\ UNCHANGED <<home, table, freed, queued, running>>

\* The kernel stack cannot be allocated: the child is deleted.
CloneFails(c, t) ==
  /\ At(c, t, "clone")
  /\ freed' = freed \union {arg[t]}
  /\ Return(t)
  /\ UNCHANGED <<status, home, parent, tgid, table, queued, running>>

\* The child enters the task table,
CloneInsert(c, t) ==
  /\ At(c, t, "clone")
  /\ table' = table \union {arg[t]}
  /\ Goto(t, "insert")
  /\ UNCHANGED <<status, home, parent, tgid, freed, queued, running, arg>>

\* and AddTask stops the caller by its assert, as in AddTaskFails.
CloneAddTask(c, t) ==
  /\ At(c, t, "insert")
  /\ Goto(t, "halted")
  /\ UNCHANGED <<status, home, parent, tgid, table, freed, queued, running, arg>>

-----------------------------------------------------------------------------
(* Exit *)

\* Takes the lock of the core.  Children are reparented for a group leader only.
Exit(c, t) ==
  /\ At(c, t, "user")
  /\ Goto(t, IF IsThreadGroupLeader(t) THEN "reparent" ELSE "mark")
  /\ UNCHANGED <<status, home, parent, tgid, table, freed, queued, running, arg>>

\* Mutant: only the children that still live are handed over.
ReparentLive(c, t) ==
  /\ At(c, t, "reparent")
  /\ parent' = [n \in Tasks |-> IF n \in table /\ parent[n] = t /\ status[n] \notin Dead
                                  THEN InitTask ELSE parent[n]]
  /\ Goto(t, "mark")
  /\ UNCHANGED <<status, home, tgid, table, freed, queued, running, arg>>

ReparentChildren(c, t) ==
  /\ At(c, t, "reparent")
  /\ parent' = [n \in Tasks |-> IF n \in table /\ parent[n] = t
                                  THEN InitTask ELSE parent[n]]
  /\ Goto(t, "mark")
  /\ UNCHANGED <<status, home, tgid, table, freed, queued, running, arg>>

ExitMark(c, t) ==
  /\ At(c, t, "mark")
  /\ status' = [status EXCEPT ![t] = IF parent[t] # NoTask THEN "Zombie" ELSE "Exited"]
  /\ Goto(t, IF parent[t] # NoTask THEN "notify" ELSE "reap")
  /\ UNCHANGED <<home, parent, tgid, table, freed, queued, running, arg>>

\* Wakeup takes the lock that Exit holds: LockGuard hangs with interrupts off.
ExitNotify(c, t) ==
  /\ At(c, t, "notify")
  /\ Goto(t, "deadlock")
  /\ UNCHANGED <<status, home, parent, tgid, table, freed, queued, running, arg>>

\* Mutant: the table keeps the task.
ReapTaskKept(c, t) ==
  /\ At(c, t, "reap")
  /\ Goto(t, "free")
  /\ UNCHANGED <<status, home, parent, tgid, table, freed, queued, running, arg>>

\* ReapTask of a task without a parent: out of the table,
ReapTask(c, t) ==
  /\ At(c, t, "reap")
  /\ table' = table \ {t}
  /\ Goto(t, "free")
  /\ UNCHANGED <<status, home, parent, tgid, freed, queued, running, arg>>

\* deleted,
ReapTaskDelete(c, t) ==
  /\ At(c, t, "free")
  /\ freed' = freed \union {t}
  /\ Goto(t, "leave")
  /\ UNCHANGED <<status, home, parent, tgid, table, queued, running, arg>>

\* and left by Schedule.
ExitSchedule(c, t) ==
  /\ At(c, t, "leave")
  /\ DoSchedule(c)
  /\ UNCHANGED <<home, parent, tgid, table, freed, pc, arg>>

-----------------------------------------------------------------------------
(* Wait *)

\* Mutant: any finished task matches.
MatchesAny(t, n, want) == want \in {AnyChild, n}

\* is_child and pid_match
Matches(t, n, want) == parent[n] = t /\ want \in {AnyChild, n}

\* One walk over the table, in the order of the hash map: the first finished
\* match, or the first blocked one with untraced, ends it.
WaitScan(c, t, want, no_hang, untraced) ==
  /\ At(c, t, "user")
  /\ LET found == {n \in table : Matches(t, n, want) /\ status[n] \in Dead}
         stopped == {n \in table : Matches(t, n, want) /\ status[n] = "Blocked"}
     IN  \/ \E n \in found : CallOn(t, "erase", n)
         \/ untraced /\ stopped # {} /\ Return(t)
         \/ /\ found = {}
            /\ untraced => stopped = {}
            /\ IF no_hang THEN Return(t) ELSE CallOn(t, "block", want)
  /\ UNCHANGED <<status, home, parent, tgid, table, freed, queued, running>>

\* Block on the kChildExit resource of t.
WaitBlock(c, t) ==
  /\ At(c, t, "block")
  /\ SwitchTo(c, [status EXCEPT ![t] = "Blocked"], queued)
  /\ UNCHANGED <<home, parent, tgid, table, freed, pc, arg>>

\* The asserts on status and parent_pid, then task_table_.erase
WaitErase(c, t) ==
  /\ At(c, t, "erase")
  /\ table' = table \ {arg[t]}
  /\ Goto(t, "delete")
  /\ UNCHANGED <<status, home, parent, tgid, freed, queued, running, arg>>

\* Mutant: Wait returns without delete.
WaitDeleteNot(c, t) ==
  /\ At(c, t, "delete")
  /\ Return(t)
  /\ UNCHANGED <<status, home, parent, tgid, table, freed, queued, running>>

\* delete target
WaitDelete(c, t) ==
  /\ At(c, t, "delete")
  /\ freed' = freed \union {arg[t]}
  /\ Return(t)
  /\ UNCHANGED <<status, home, parent, tgid, table, queued, running>>

-----------------------------------------------------------------------------
TaskStep(c, t) ==
  \/ \E n \in Tasks, p \in {t, NoTask}, thread \in BOOLEAN, h \in Cores :
       AddTask(c, t, n, p, thread, h)
  \/ \E n \in Tasks, p \in {t, NoTask}, thread \in BOOLEAN :
       AddTaskFails(c, t, n, p, thread)
  \/ AddTaskLock(c, t) \/ AddTaskEnqueue(c, t)
  \/ \E n \in Tasks, thread, sibling \in BOOLEAN : Clone(c, t, n, thread, sibling)
  \/ CloneFails(c, t) \/ CloneInsert(c, t) \/ CloneAddTask(c, t)
  \/ Exit(c, t) \/ ReparentChildren(c, t) \/ ExitMark(c, t) \/ ExitNotify(c, t)
  \/ ReapTask(c, t) \/ ReapTaskDelete(c, t) \/ ExitSchedule(c, t)
  \/ \E want \in Tasks \union {AnyChild}, no_hang, untraced \in BOOLEAN :
       WaitScan(c, t, want, no_hang, untraced)
  \/ WaitBlock(c, t) \/ WaitErase(c, t) \/ WaitDelete(c, t)

Next == \E c \in Cores : Schedule(c) \/ \E t \in Tasks : TaskStep(c, t)

\* A core that is not hung executes its task, and its timer goes on.
Fairness ==
  \A c \in Cores :
    /\ SF_vars(Schedule(c))
    /\ \A t \in Tasks :
         /\ SF_vars(AddTaskLock(c, t))
         /\ WF_vars(AddTaskEnqueue(c, t))
         /\ WF_vars(ReparentChildren(c, t) \/ ExitMark(c, t) \/ ExitNotify(c, t)
                     \/ ReapTask(c, t) \/ ReapTaskDelete(c, t) \/ ExitSchedule(c, t))
         /\ SF_vars(WaitBlock(c, t) \/ WaitErase(c, t) \/ WaitDelete(c, t))

Spec == Init /\ [][Next]_vars
FairSpec == Spec /\ Fairness

-----------------------------------------------------------------------------
(* Properties *)

\* The variables have their types, and a task in the table has a thread group
\* (IsThreadGroupLeader and FindTask(tgid) rely on it).
TypeOK ==
  /\ status \in [Tasks -> Status]
  /\ home \in [Tasks -> Cores]
  /\ parent \in [Tasks -> Tasks \union {NoTask}]
  /\ tgid \in [Tasks -> Tasks \union {NoTask}]
  /\ table \subseteq Tasks /\ freed \subseteq Tasks /\ queued \subseteq Tasks
  /\ running \in [Cores -> Tasks \union {NoTask}]
  /\ pc \in [Tasks -> PCs]
  /\ arg \in [Tasks -> Tasks \union {NoTask, AnyChild}]
  /\ \A t \in table : tgid[t] \in Tasks

\* Between the scan of Wait, which gives task_table_lock_ back, and the erase
\* the target stays a finished child of the waiter, in the table and not deleted:
\* the three asserts of wait.cpp hold and no task is deleted twice.
WaitTargetStable ==
  \A t \in Tasks :
    pc[t] \in {"erase", "delete"} =>
      /\ status[arg[t]] \in Dead
      /\ parent[arg[t]] = t
      /\ arg[t] \notin freed
      /\ arg[t] \in table <=> pc[t] = "erase"

\* FindTask, GetThreadGroup and the scan of Wait never meet a deleted task.
TableIsLive == table \intersect freed = {}

\* A ready queue never holds a deleted or a finished task, although Exit deletes
\* the task that Schedule then finds as the current one.
QueuedIsLive == \A t \in queued : status[t] = "Ready" /\ t \notin freed

\* A finished task is never resumed: no step changes the status of a task that
\* is a zombie or has exited.
DeadStaysDead ==
  [][\A t \in Tasks : status[t] \in Dead => status'[t] = status[t]]_vars

\* No finished task is forgotten: until it is deleted it is in the table, or in
\* the hands of the one who has just erased it.  The task whose constructor has
\* failed stays with the creator that AddTask has stopped.
NothingLeaks ==
  \A t \in Tasks :
    status[t] \in Dead =>
      \/ t \in table \union freed
      \/ pc[t] = "free"
      \/ \E u \in Tasks : pc[u] \in {"delete", "halted"} /\ arg[u] = t

\* A zombie whose parent led its thread group has been handed to the init task
\* once the parent is past ReparentChildren: no zombie names a finished leader,
\* the init task excepted.
ZombieHasReaper ==
  \A t \in Tasks \ freed :
    status[t] = "Zombie" =>
      \/ parent[t] = InitTask
      \/ ~IsThreadGroupLeader(parent[t])
      \/ status[parent[t]] \notin Dead

\* A parent that waits for a child is woken when the child exits (exit.cpp wakes
\* the parent blocked in Wait).
ParentWoken ==
  \A t \in Tasks :
    (status[t] = "Blocked" /\ \E n \in table : Matches(t, n, arg[t]) /\ status[n] = "Zombie")
      ~> status[t] # "Blocked"
=============================================================================
