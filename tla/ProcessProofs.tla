--------------------------- MODULE ProcessProofs ----------------------------
(***************************************************************************)
(* Proofs of the safety properties of the task life cycle, for any number  *)
(* of cores and tasks.                                                     *)
(***************************************************************************)
EXTENDS Process, TLAPS

-----------------------------------------------------------------------------
(* The inductive invariant *)

\* Exit has set the status.
Finished == {"notify", "reap", "free", "leave", "deadlock"}
\* t is past ReparentChildren.
Past(t) == pc[t] \in Finished \union {"mark"}
\* n is about to enter a queue.
Adding(n) == \E u \in Tasks : pc[u] \in {"added", "enqueue"} /\ arg[u] = n

\* The task of a core belongs to it alone and has status kRunning until Exit changes it.
RunningInv ==
  \A c \in Cores : running[c] # NoTask =>
    /\ home[running[c]] = c
    /\ running[c] \notin queued
    /\ status[running[c]] = "Running" \/ pc[running[c]] \in Finished

\* What the status of a task says about its place.
StatusInv ==
  \A t \in Tasks :
    /\ status[t] = "UnInit" => t \notin table /\ t \notin freed /\ pc[t] = "user"
    /\ status[t] = "Ready" => pc[t] \notin Masked
    /\ status[t] = "Running" => t \in table /\ pc[t] \notin Finished
    /\ status[t] = "Blocked" => t \in table /\ pc[t] = "block"
    /\ status[t] = "Zombie" => pc[t] \in Finished /\ parent[t] # NoTask
    /\ status[t] = "Exited" => pc[t] \in Finished \/ (pc[t] = "user" /\ t \notin table)
    /\ pc[t] \in Finished => status[t] \in Dead
    /\ pc[t] \in {"reap", "free", "leave"} => parent[t] = NoTask
    /\ pc[t] \in {"free", "leave"} => t \notin table
    /\ t \in queued => status[t] = "Ready" /\ t \in table

\* The argument of a task in the middle of AddTask or Clone is its own, and waits
\* outside the queues; that of a halted caller does so for ever.
ArgInv ==
  \A t \in Tasks :
    /\ pc[t] \in {"added", "enqueue", "clone", "insert", "halted"} =>
         /\ arg[t] \in Tasks
         /\ arg[t] \notin queued
         /\ status[arg[t]] = "Ready" \/ (status[arg[t]] = "Exited" /\ pc[t] = "halted")
         /\ \A u \in Tasks :
              pc[u] \in {"added", "enqueue", "clone", "insert", "halted"} /\ arg[u] = arg[t] => u = t
    /\ pc[t] \in {"added", "enqueue", "clone"} =>
         /\ arg[t] \notin freed
         /\ arg[t] \in table <=> pc[t] # "clone"
         /\ tgid[arg[t]] \in Tasks
    /\ pc[t] \in {"erase", "delete"} => arg[t] \in Tasks

\* A parent has run; a leader past ReparentChildren has left its children to init.
ParentInv ==
  /\ \A p, n \in Tasks :
       parent[n] = p => status[p] # "UnInit" /\ ~(status[p] = "Exited" /\ pc[p] = "user")
  /\ status[InitTask] # "UnInit" /\ ~(status[InitTask] = "Exited" /\ pc[InitTask] = "user")
  /\ \A n \in Tasks :
       \/ n \in queued
       \/ status[n] \in {"Running", "Blocked"}
       \/ status[n] = "Zombie" /\ n \in table
       \/ Adding(n)
       => parent[n] \in {NoTask, InitTask} \/ ~IsThreadGroupLeader(parent[n]) \/ ~Past(parent[n])

IInv ==
  /\ TypeOK /\ RunningInv /\ StatusInv /\ ArgInv /\ ParentInv
  /\ WaitTargetStable /\ TableIsLive /\ NothingLeaks

-----------------------------------------------------------------------------
(* The steps keep the invariant *)

\* AddTask takes a new control block into task_table_.
LEMMA AddTaskStep ==
  ASSUME IInv, NEW c \in Cores, NEW t \in Tasks,
         NEW n \in Tasks, NEW p \in {t, NoTask}, NEW thread \in BOOLEAN, NEW h \in Cores,
         AddTask(c, t, n, p, thread, h)
  PROVE  IInv'
  <1> USE ProcessAssumption DEF IInv, AddTask, At, Goto, CallOn, Return
  <1>1. TypeOK'
    BY DEF TypeOK, Status, PCs, StatusInv, RunningInv, Finished
  <1>2. RunningInv'
    BY DEF RunningInv, TypeOK, Finished, StatusInv
  <1>3. StatusInv'
    BY DEF StatusInv, RunningInv, TypeOK, Finished, Masked, Locked, Dead, ArgInv,
           WaitTargetStable, TableIsLive
  <1>4. ArgInv'
    BY DEF ArgInv, TypeOK, StatusInv, RunningInv, Finished
  <1>5. ParentInv'
    BY DEF ParentInv, Adding, Past, IsThreadGroupLeader, TypeOK, StatusInv,
           RunningInv, Finished
  <1>6. WaitTargetStable'
    BY DEF WaitTargetStable, TypeOK, StatusInv, ArgInv, Dead
  <1>7. TableIsLive'
    BY DEF TableIsLive
  <1>8. NothingLeaks'
    BY DEF NothingLeaks
  <1> QED
    BY <1>1, <1>2, <1>3, <1>4, <1>5, <1>6, <1>7, <1>8

\* The constructor of the new task has failed: AddTask stops its caller.
LEMMA AddTaskFailsStep ==
  ASSUME IInv, NEW c \in Cores, NEW t \in Tasks,
         NEW n \in Tasks, NEW p \in {t, NoTask}, NEW thread \in BOOLEAN,
         AddTaskFails(c, t, n, p, thread)
  PROVE  IInv'
  <1> USE ProcessAssumption DEF IInv, AddTaskFails, At, Goto, CallOn, Return
  <1>1. TypeOK'
    BY DEF TypeOK, Status, PCs, StatusInv, RunningInv, Finished
  <1>2. RunningInv'
    BY DEF RunningInv, TypeOK, Finished
  <1>3. StatusInv'
    BY DEF StatusInv, TypeOK, RunningInv, Finished
  <1>4. ArgInv'
    BY DEF ArgInv, TypeOK, StatusInv
  <1>5. ParentInv'
    BY DEF ParentInv, Adding, Past, IsThreadGroupLeader, TypeOK, StatusInv,
           RunningInv, Finished
  <1>6. WaitTargetStable'
    BY DEF WaitTargetStable, TypeOK, StatusInv, ArgInv, Dead
  <1>7. TableIsLive'
    BY DEF TableIsLive
  <1>8. NothingLeaks'
    BY DEF NothingLeaks, TypeOK
  <1> QED
    BY <1>1, <1>2, <1>3, <1>4, <1>5, <1>6, <1>7, <1>8

\* AddTask takes the lock of the target core.
LEMMA AddTaskLockStep ==
  ASSUME IInv, NEW c \in Cores, NEW t \in Tasks,
         AddTaskLock(c, t)
  PROVE  IInv'
  <1> USE ProcessAssumption DEF IInv, AddTaskLock, At, Goto, CallOn, Return
  <1>1. TypeOK'
    BY DEF TypeOK, PCs, Masked, Locked
  <1>2. RunningInv'
    BY DEF RunningInv, TypeOK, Finished
  <1>3. StatusInv'
    BY DEF StatusInv, TypeOK, RunningInv, Finished
  <1>4. ArgInv'
    BY DEF ArgInv
  <1>5. ParentInv'
    BY DEF ParentInv, Adding, Past, IsThreadGroupLeader, TypeOK, Finished
  <1>6. WaitTargetStable'
    BY DEF WaitTargetStable
  <1>7. TableIsLive'
    BY DEF TableIsLive
  <1>8. NothingLeaks'
    BY DEF NothingLeaks
  <1> QED
    BY <1>1, <1>2, <1>3, <1>4, <1>5, <1>6, <1>7, <1>8

\* AddTask enqueues the new task and returns.
LEMMA AddTaskEnqueueStep ==
  ASSUME IInv, NEW c \in Cores, NEW t \in Tasks,
         AddTaskEnqueue(c, t)
  PROVE  IInv'
  <1> USE ProcessAssumption DEF IInv, AddTaskEnqueue, At, Goto, CallOn, Return
  <1>1. TypeOK'
    BY DEF TypeOK, PCs, ArgInv
  <1>2. RunningInv'
    BY DEF RunningInv, TypeOK, Finished, StatusInv, ArgInv, Dead
  <1>3. StatusInv'
    BY DEF StatusInv, TypeOK, RunningInv, ArgInv, Finished, Dead
  <1>4. ArgInv'
    BY DEF ArgInv, TypeOK
  <1>5. ParentInv'
    BY DEF ParentInv, Adding, Past, IsThreadGroupLeader, TypeOK, StatusInv,
           RunningInv, Finished
  <1>6. WaitTargetStable'
    BY DEF WaitTargetStable
  <1>7. TableIsLive'
    BY DEF TableIsLive
  <1>8. NothingLeaks'
    BY DEF NothingLeaks
  <1> QED
    BY <1>1, <1>2, <1>3, <1>4, <1>5, <1>6, <1>7, <1>8

\* Clone builds the child, up to its stack.
LEMMA CloneStep ==
  ASSUME IInv, NEW c \in Cores, NEW t \in Tasks,
         NEW n \in Tasks, NEW thread \in BOOLEAN, NEW sibling \in BOOLEAN,
         Clone(c, t, n, thread, sibling)
  PROVE  IInv'
  <1> USE ProcessAssumption DEF IInv, Clone, At, Goto, CallOn, Return
  <1>1. TypeOK'
    BY DEF TypeOK, Status, PCs, StatusInv, RunningInv, Finished
  <1>2. RunningInv'
    BY DEF RunningInv, TypeOK, Finished
  <1>3. StatusInv'
    BY DEF StatusInv, RunningInv, TypeOK, Finished, Masked, Locked, Dead, ArgInv,
           WaitTargetStable, TableIsLive
  <1>4. ArgInv'
    BY DEF ArgInv, TypeOK, StatusInv, RunningInv, Finished
  <1>5. ParentInv'
    BY DEF ParentInv, Adding, Past, IsThreadGroupLeader, TypeOK, StatusInv,
           RunningInv, Finished
  <1>6. WaitTargetStable'
    BY DEF WaitTargetStable, TypeOK, StatusInv, ArgInv, Dead
  <1>7. TableIsLive'
    BY DEF TableIsLive
  <1>8. NothingLeaks'
    BY DEF NothingLeaks, TypeOK, StatusInv, ArgInv, Dead
  <1> QED
    BY <1>1, <1>2, <1>3, <1>4, <1>5, <1>6, <1>7, <1>8

\* The stack of the child cannot be allocated: Clone deletes it.
LEMMA CloneFailsStep ==
  ASSUME IInv, NEW c \in Cores, NEW t \in Tasks,
         CloneFails(c, t)
  PROVE  IInv'
  <1> USE ProcessAssumption DEF IInv, CloneFails, At, Goto, CallOn, Return
  <1>1. TypeOK'
    BY DEF TypeOK, PCs, ArgInv
  <1>2. RunningInv'
    BY DEF RunningInv, TypeOK, Finished
  <1>3. StatusInv'
    BY DEF StatusInv, TypeOK, RunningInv, ArgInv, Finished, Dead
  <1>4. ArgInv'
    BY DEF ArgInv, TypeOK
  <1>5. ParentInv'
    BY DEF ParentInv, Adding, Past, IsThreadGroupLeader, TypeOK, StatusInv,
           RunningInv, Finished
  <1>6. WaitTargetStable'
    BY DEF WaitTargetStable, TypeOK, StatusInv, ArgInv, Dead
  <1>7. TableIsLive'
    BY DEF TableIsLive, TypeOK, ArgInv
  <1>8. NothingLeaks'
    BY DEF NothingLeaks
  <1> QED
    BY <1>1, <1>2, <1>3, <1>4, <1>5, <1>6, <1>7, <1>8

\* Clone puts the child into task_table_.
LEMMA CloneInsertStep ==
  ASSUME IInv, NEW c \in Cores, NEW t \in Tasks,
         CloneInsert(c, t)
  PROVE  IInv'
  <1> USE ProcessAssumption DEF IInv, CloneInsert, At, Goto, CallOn, Return
  <1>1. TypeOK'
    BY DEF TypeOK, PCs, ArgInv
  <1>2. RunningInv'
    BY DEF RunningInv, TypeOK, Finished
  <1>3. StatusInv'
    BY DEF StatusInv, TypeOK, RunningInv, ArgInv, Finished, Dead
  <1>4. ArgInv'
    BY DEF ArgInv, TypeOK
  <1>5. ParentInv'
    BY DEF ParentInv, Adding, Past, IsThreadGroupLeader, TypeOK, StatusInv,
           RunningInv, ArgInv, Finished, Dead
  <1>6. WaitTargetStable'
    BY DEF WaitTargetStable, TypeOK, StatusInv, ArgInv, Dead
  <1>7. TableIsLive'
    BY DEF TableIsLive, TypeOK, ArgInv
  <1>8. NothingLeaks'
    BY DEF NothingLeaks
  <1> QED
    BY <1>1, <1>2, <1>3, <1>4, <1>5, <1>6, <1>7, <1>8

\* AddTask stops the caller of Clone by its assert.
LEMMA CloneAddTaskStep ==
  ASSUME IInv, NEW c \in Cores, NEW t \in Tasks,
         CloneAddTask(c, t)
  PROVE  IInv'
  <1> USE ProcessAssumption DEF IInv, CloneAddTask, At, Goto, CallOn, Return
  <1>1. TypeOK'
    BY DEF TypeOK, PCs
  <1>2. RunningInv'
    BY DEF RunningInv, TypeOK, Finished
  <1>3. StatusInv'
    BY DEF StatusInv, TypeOK, RunningInv, Finished
  <1>4. ArgInv'
    BY DEF ArgInv
  <1>5. ParentInv'
    BY DEF ParentInv, Adding, Past, IsThreadGroupLeader, TypeOK, Finished
  <1>6. WaitTargetStable'
    BY DEF WaitTargetStable
  <1>7. TableIsLive'
    BY DEF TableIsLive
  <1>8. NothingLeaks'
    BY DEF NothingLeaks
  <1> QED
    BY <1>1, <1>2, <1>3, <1>4, <1>5, <1>6, <1>7, <1>8

\* Exit begins, under the per-CPU lock.
LEMMA ExitStep ==
  ASSUME IInv, NEW c \in Cores, NEW t \in Tasks,
         Exit(c, t)
  PROVE  IInv'
  <1> USE ProcessAssumption DEF IInv, Exit, At, Goto, CallOn, Return
  <1>1. TypeOK'
    BY DEF TypeOK, PCs, Masked, Locked
  <1>2. RunningInv'
    BY DEF RunningInv, TypeOK, Finished
  <1>3. StatusInv'
    BY DEF StatusInv, TypeOK, RunningInv, Finished
  <1>4. ArgInv'
    BY DEF ArgInv
  <1>5. ParentInv'
    BY DEF ParentInv, Adding, Past, IsThreadGroupLeader, TypeOK, Finished
  <1>6. WaitTargetStable'
    BY DEF WaitTargetStable
  <1>7. TableIsLive'
    BY DEF TableIsLive
  <1>8. NothingLeaks'
    BY DEF NothingLeaks
  <1> QED
    BY <1>1, <1>2, <1>3, <1>4, <1>5, <1>6, <1>7, <1>8

\* Exit hands the children of a group leader to the init task.
LEMMA ReparentChildrenStep ==
  ASSUME IInv, NEW c \in Cores, NEW t \in Tasks,
         ReparentChildren(c, t)
  PROVE  IInv'
  <1> USE ProcessAssumption DEF IInv, ReparentChildren, At, Goto, CallOn, Return
  <1>1. TypeOK'
    BY DEF TypeOK, PCs, Masked, Locked
  <1>2. RunningInv'
    BY DEF RunningInv, TypeOK, Finished
  <1>3. StatusInv'
    BY DEF StatusInv, TypeOK, RunningInv, Finished
  <1>4. ArgInv'
    BY DEF ArgInv
  <1>5. ParentInv'
    BY DEF ParentInv, Adding, Past, IsThreadGroupLeader, TypeOK, StatusInv, ArgInv
  <1>6. WaitTargetStable'
    BY DEF WaitTargetStable, TypeOK, ArgInv
  <1>7. TableIsLive'
    BY DEF TableIsLive
  <1>8. NothingLeaks'
    BY DEF NothingLeaks
  <1> QED
    BY <1>1, <1>2, <1>3, <1>4, <1>5, <1>6, <1>7, <1>8

\* Exit makes the task a zombie, or an exited task if it is a thread or an orphan.
LEMMA ExitMarkStep ==
  ASSUME IInv, NEW c \in Cores, NEW t \in Tasks,
         ExitMark(c, t)
  PROVE  IInv'
  <1> USE ProcessAssumption DEF IInv, ExitMark, At, Goto, CallOn, Return
  <1>1. TypeOK'
    BY DEF TypeOK, Status, PCs, Masked, Locked
  <1>2. RunningInv'
    BY DEF RunningInv, TypeOK, Finished
  <1>3. StatusInv'
    BY DEF StatusInv, TypeOK, RunningInv, Finished, Dead
  <1>4. ArgInv'
    BY DEF ArgInv, TypeOK, StatusInv, RunningInv, Finished
  <1>5. ParentInv'
    BY DEF ParentInv, Adding, Past, IsThreadGroupLeader, TypeOK, StatusInv,
           RunningInv, Finished
  <1>6. WaitTargetStable'
    BY DEF WaitTargetStable, TypeOK, StatusInv, ArgInv, Dead
  <1>7. TableIsLive'
    BY DEF TableIsLive
  <1>8. NothingLeaks'
    BY DEF NothingLeaks, TypeOK, StatusInv, RunningInv, Finished
  <1> QED
    BY <1>1, <1>2, <1>3, <1>4, <1>5, <1>6, <1>7, <1>8

\* Exit calls Wakeup, which hangs on the lock that Exit holds.
LEMMA ExitNotifyStep ==
  ASSUME IInv, NEW c \in Cores, NEW t \in Tasks,
         ExitNotify(c, t)
  PROVE  IInv'
  <1> USE ProcessAssumption DEF IInv, ExitNotify, At, Goto, CallOn, Return
  <1>1. TypeOK'
    BY DEF TypeOK, PCs, Masked, Locked
  <1>2. RunningInv'
    BY DEF RunningInv, TypeOK, Finished
  <1>3. StatusInv'
    BY DEF StatusInv, TypeOK, RunningInv, Finished, Dead
  <1>4. ArgInv'
    BY DEF ArgInv
  <1>5. ParentInv'
    BY DEF ParentInv, Adding, Past, IsThreadGroupLeader, TypeOK, Finished
  <1>6. WaitTargetStable'
    BY DEF WaitTargetStable
  <1>7. TableIsLive'
    BY DEF TableIsLive
  <1>8. NothingLeaks'
    BY DEF NothingLeaks
  <1> QED
    BY <1>1, <1>2, <1>3, <1>4, <1>5, <1>6, <1>7, <1>8

\* ReapTask takes an orphan out of task_table_.
LEMMA ReapTaskStep ==
  ASSUME IInv, NEW c \in Cores, NEW t \in Tasks,
         ReapTask(c, t)
  PROVE  IInv'
  <1> USE ProcessAssumption DEF IInv, ReapTask, At, Goto, CallOn, Return
  <1>1. TypeOK'
    BY DEF TypeOK, PCs, Masked, Locked
  <1>2. RunningInv'
    BY DEF RunningInv, TypeOK, Finished
  <1>3. StatusInv'
    BY DEF StatusInv, TypeOK, RunningInv, Finished, Dead
  <1>4. ArgInv'
    BY DEF ArgInv, TypeOK, StatusInv, RunningInv, Finished, Dead
  <1>5. ParentInv'
    BY DEF ParentInv, Adding, Past, IsThreadGroupLeader, TypeOK, Finished
  <1>6. WaitTargetStable'
    BY DEF WaitTargetStable, TypeOK, StatusInv
  <1>7. TableIsLive'
    BY DEF TableIsLive
  <1>8. NothingLeaks'
    BY DEF NothingLeaks, TypeOK
  <1> QED
    BY <1>1, <1>2, <1>3, <1>4, <1>5, <1>6, <1>7, <1>8

\* ReapTask deletes the orphan.
LEMMA ReapTaskDeleteStep ==
  ASSUME IInv, NEW c \in Cores, NEW t \in Tasks,
         ReapTaskDelete(c, t)
  PROVE  IInv'
  <1> USE ProcessAssumption DEF IInv, ReapTaskDelete, At, Goto, CallOn, Return
  <1>1. TypeOK'
    BY DEF TypeOK, PCs, Masked, Locked
  <1>2. RunningInv'
    BY DEF RunningInv, TypeOK, Finished
  <1>3. StatusInv'
    BY DEF StatusInv, TypeOK, RunningInv, Finished, Dead
  <1>4. ArgInv'
    BY DEF ArgInv, TypeOK, StatusInv, RunningInv, Finished, Dead
  <1>5. ParentInv'
    BY DEF ParentInv, Adding, Past, IsThreadGroupLeader, TypeOK, Finished
  <1>6. WaitTargetStable'
    BY DEF WaitTargetStable, TypeOK, StatusInv
  <1>7. TableIsLive'
    BY DEF TableIsLive, TypeOK, StatusInv
  <1>8. NothingLeaks'
    BY SMTT(60) DEF NothingLeaks
  <1> QED
    BY <1>1, <1>2, <1>3, <1>4, <1>5, <1>6, <1>7, <1>8

\* Wait looks through task_table_.
LEMMA WaitScanStep ==
  ASSUME IInv, NEW c \in Cores, NEW t \in Tasks,
         NEW want \in Tasks \union {AnyChild}, NEW no_hang \in BOOLEAN, NEW untraced \in
         BOOLEAN,
         WaitScan(c, t, want, no_hang, untraced)
  PROVE  IInv'
  <1> USE ProcessAssumption DEF IInv, WaitScan, At, Goto, CallOn, Return
  <1>1. TypeOK'
    BY DEF TypeOK, PCs
  <1>2. RunningInv'
    BY DEF RunningInv, TypeOK, Finished
  <1>3. StatusInv'
    BY DEF StatusInv, TypeOK, RunningInv, Finished
  <1>4. ArgInv'
    BY DEF ArgInv, TypeOK
  <1>5. ParentInv'
    BY DEF ParentInv, Adding, Past, IsThreadGroupLeader, TypeOK, Finished
  <1>6. WaitTargetStable'
    BY SMTT(60) DEF WaitTargetStable, StatusInv, RunningInv, ArgInv, TypeOK, Finished, Dead,
           TableIsLive, Matches
  <1>7. TableIsLive'
    BY DEF TableIsLive
  <1>8. NothingLeaks'
    BY DEF NothingLeaks, TypeOK
  <1> QED
    BY <1>1, <1>2, <1>3, <1>4, <1>5, <1>6, <1>7, <1>8

\* Wait takes the child it has found out of task_table_.
LEMMA WaitEraseStep ==
  ASSUME IInv, NEW c \in Cores, NEW t \in Tasks,
         WaitErase(c, t)
  PROVE  IInv'
  <1> USE ProcessAssumption DEF IInv, WaitErase, At, Goto, CallOn, Return
  <1>1. TypeOK'
    BY DEF TypeOK, PCs
  <1>2. RunningInv'
    BY DEF RunningInv, TypeOK, Finished
  <1>3. StatusInv'
    BY DEF StatusInv, RunningInv, TypeOK, Finished, Masked, Locked, Dead, ArgInv,
           WaitTargetStable, TableIsLive
  <1>4. ArgInv'
    BY DEF ArgInv, StatusInv, RunningInv, TypeOK, Finished, Masked, Locked, Dead,
           TableIsLive, WaitTargetStable
  <1>5. ParentInv'
    BY DEF ParentInv, Adding, Past, IsThreadGroupLeader, TypeOK, Finished
  <1>6. WaitTargetStable'
    BY SMTT(60) DEF WaitTargetStable, TypeOK
  <1>7. TableIsLive'
    BY DEF TableIsLive
  <1>8. NothingLeaks'
    BY DEF NothingLeaks, TypeOK
  <1> QED
    BY <1>1, <1>2, <1>3, <1>4, <1>5, <1>6, <1>7, <1>8

\* Wait deletes the child and returns its pid.
LEMMA WaitDeleteStep ==
  ASSUME IInv, NEW c \in Cores, NEW t \in Tasks,
         WaitDelete(c, t)
  PROVE  IInv'
  <1> USE ProcessAssumption DEF IInv, WaitDelete, At, Goto, CallOn, Return
  <1>1. TypeOK'
    BY DEF TypeOK, PCs, ArgInv
  <1>2. RunningInv'
    BY DEF RunningInv, TypeOK, Finished
  <1>3. StatusInv'
    BY DEF StatusInv, RunningInv, TypeOK, Finished, Masked, Locked, Dead, ArgInv,
           WaitTargetStable, TableIsLive
  <1>4. ArgInv'
    BY DEF ArgInv, StatusInv, RunningInv, TypeOK, Finished, Masked, Locked, Dead,
           TableIsLive, WaitTargetStable
  <1>5. ParentInv'
    BY DEF ParentInv, Adding, Past, IsThreadGroupLeader, TypeOK, StatusInv,
           RunningInv, Finished
  <1>6. WaitTargetStable'
    BY DEF WaitTargetStable, TypeOK
  <1>7. TableIsLive'
    BY DEF TableIsLive, TypeOK, WaitTargetStable
  <1>8. NothingLeaks'
    BY DEF NothingLeaks
  <1> QED
    BY <1>1, <1>2, <1>3, <1>4, <1>5, <1>6, <1>7, <1>8

\* Schedule, from Schedule, Exit and Block.  st and q are status and queues without
\* the current task of c, which may be in q.
LEMMA SwitchToStep ==
  ASSUME IInv, NEW c \in Cores, NEW st, NEW q,
         SwitchTo(c, st, q),
         UNCHANGED <<home, parent, tgid, table, freed, pc, arg>>,
         \/ st = status /\ q = queued
              /\ (running[c] # NoTask => pc[running[c]] = "leave")
         \/ /\ running[c] # NoTask /\ status[running[c]] = "Running"
            /\ pc[running[c]] \notin Masked
            /\ \/ /\ st = [status EXCEPT ![running[c]] = "Ready"]
                  /\ q = queued \union {running[c]}
               \/ /\ st = [status EXCEPT ![running[c]] = "Blocked"]
                  /\ q = queued
                  /\ pc[running[c]] = "block"
  PROVE  IInv'
  <1> USE ProcessAssumption DEF IInv, SwitchTo
  <1>1. TypeOK'
    BY DEF TypeOK, Status, PCs, Masked, Locked, RunningInv, StatusInv
  <1>2. RunningInv'
    BY DEF RunningInv, TypeOK, Finished, StatusInv, Status
  <1>3. StatusInv'
    BY DEF StatusInv, RunningInv, TypeOK, Finished, Masked, Locked, Dead, ArgInv,
           WaitTargetStable, TableIsLive, Status
  <1>4. ArgInv'
    BY SMTT(60) DEF ArgInv, StatusInv, RunningInv, TypeOK, Finished, Masked, Locked, Dead,
           TableIsLive, Status
  <1>5. ParentInv'
    BY DEF ParentInv, StatusInv, RunningInv, ArgInv, TypeOK, Adding, Past, Finished,
           Dead, IsThreadGroupLeader, WaitTargetStable, Status
  <1>6. WaitTargetStable'
    BY DEF WaitTargetStable, StatusInv, RunningInv, ArgInv, TypeOK, Finished, Dead,
           TableIsLive, Matches, Status
  <1>7. TableIsLive'
    BY DEF TableIsLive, StatusInv, ArgInv, TypeOK, WaitTargetStable, Dead, Status
  <1>8. NothingLeaks'
    BY DEF NothingLeaks, StatusInv, RunningInv, ArgInv, TypeOK, Finished, Dead,
           WaitTargetStable, Status
  <1> QED
    BY <1>1, <1>2, <1>3, <1>4, <1>5, <1>6, <1>7, <1>8

\* The boot tasks satisfy the invariant.
LEMMA InitIInv == Init => IInv
  BY ProcessAssumption
  DEF Init, IInv, TypeOK, Status, PCs, Masked, Locked, RunningInv, StatusInv, ArgInv,
      ParentInv, WaitTargetStable, TableIsLive, NothingLeaks, Finished, Dead, Adding, Past,
      IsThreadGroupLeader

\* Every step of every core keeps the invariant.
LEMMA NextIInv == IInv /\ [Next]_vars => IInv'
  <1> SUFFICES ASSUME IInv, [Next]_vars PROVE IInv'
    OBVIOUS
  <1>1. CASE UNCHANGED vars
    <2>1. TypeOK' /\ RunningInv'
      BY <1>1, SMTT(60) DEF vars, IInv, TypeOK, RunningInv
    <2>2. StatusInv' /\ ArgInv'
      BY <1>1, SMTT(60) DEF vars, IInv, StatusInv, ArgInv
    <2>3. ParentInv'
      BY <1>1, SMTT(60) DEF vars, IInv, ParentInv, Adding, Past, IsThreadGroupLeader
    <2>4. WaitTargetStable' /\ TableIsLive' /\ NothingLeaks'
      BY <1>1, SMTT(60) DEF vars, IInv, WaitTargetStable, TableIsLive, NothingLeaks
    <2> QED
      BY <2>1, <2>2, <2>3, <2>4 DEF IInv
  <1>2. ASSUME NEW c \in Cores, Schedule(c) PROVE IInv'
    <2>1. CASE Requeue(c)
      BY <1>2, <2>1, SwitchToStep, ZenonT(60) DEF Schedule, DoSchedule, Requeue
    <2>2. CASE ~Requeue(c)
      <3>1. running[c] = NoTask
        BY <1>2, <2>2 DEF Schedule, Requeue, IInv, RunningInv, Masked, Locked, Finished
      <3> QED
        BY <1>2, <2>2, <3>1, SwitchToStep, ZenonT(60) DEF Schedule, DoSchedule
    <2> QED
      BY <2>1, <2>2, SMTT(60)
  <1>3. ASSUME NEW c \in Cores, NEW t \in Tasks, ExitSchedule(c, t) PROVE IInv'
    <2>1. ~Requeue(c)
      BY <1>3 DEF ExitSchedule, At, Requeue, IInv, StatusInv, Finished
    <2> QED
      BY <1>3, <2>1, SwitchToStep DEF ExitSchedule, At, DoSchedule
  <1>4. ASSUME NEW c \in Cores, NEW t \in Tasks, WaitBlock(c, t) PROVE IInv'
    <2>1. status[t] = "Running" /\ pc[t] \notin Masked
      BY <1>4 DEF WaitBlock, At, IInv, RunningInv, Finished, Masked, Locked
    <2> QED
      BY <1>4, <2>1, SwitchToStep, ZenonT(60) DEF WaitBlock, At
  <1>5. ASSUME NEW c \in Cores, NEW t \in Tasks, TaskStep(c, t) PROVE IInv'
    BY <1>3, <1>4, <1>5, AddTaskStep, AddTaskFailsStep, AddTaskLockStep, AddTaskEnqueueStep,
       CloneStep, CloneFailsStep, CloneInsertStep, CloneAddTaskStep, ExitStep,
       ReparentChildrenStep, ExitMarkStep, ExitNotifyStep, ReapTaskStep, ReapTaskDeleteStep,
       WaitScanStep, WaitEraseStep, WaitDeleteStep
    DEF TaskStep
  <1> QED
    BY <1>1, <1>2, <1>5 DEF Next

\* The inductive invariant of task creation, exit and wait.
LEMMA Invariance == Spec => []IInv
  BY InitIInv, NextIInv, PTL DEF Spec

-----------------------------------------------------------------------------
(* The properties *)

\* The variables of the task life cycle keep their types, and a task in task_table_
\* has a thread group.
THEOREM TypeCorrect == Spec => []TypeOK
  BY Invariance, PTL DEF IInv

\* The asserts of Wait hold when it comes back for the task its scan has found.
THEOREM WaitTargetSafe == Spec => []WaitTargetStable
  BY Invariance, PTL DEF IInv

\* task_table_ never holds a deleted task.
THEOREM TableSafe == Spec => []TableIsLive
  BY Invariance, PTL DEF IInv

\* A ready queue never holds a deleted or finished task.
THEOREM QueueSafe == Spec => []QueuedIsLive
  <1>1. IInv => QueuedIsLive
    BY DEF IInv, StatusInv, TableIsLive, QueuedIsLive, TypeOK
  <1> QED
    BY <1>1, Invariance, PTL

\* No finished task is forgotten by Exit, ReapTask and Wait.
THEOREM NoLeak == Spec => []NothingLeaks
  BY Invariance, PTL DEF IInv

\* A zombie never names a finished group leader other than the init task.
THEOREM ReaperExists == Spec => []ZombieHasReaper
  <1>1. IInv => ZombieHasReaper
    <2> SUFFICES ASSUME IInv, NEW t \in Tasks \ freed, status[t] = "Zombie",
                        parent[t] # InitTask, IsThreadGroupLeader(parent[t]),
                        status[parent[t]] \in Dead
                 PROVE  FALSE
      BY DEF ZombieHasReaper
    <2>1. parent[t] \in Tasks
      BY DEF IInv, TypeOK, StatusInv
    <2> QED
      BY <2>1, SMTT(60) DEF IInv, TypeOK, StatusInv, ArgInv, ParentInv, NothingLeaks, WaitTargetStable,
                  Past, Finished, Dead
  <1> QED
    BY <1>1, Invariance, PTL

\* No step resumes a zombie or an exited task.
THEOREM DeadForever == Spec => DeadStaysDead
  <1>1. IInv /\ [Next]_vars =>
          [\A t \in Tasks : status[t] \in Dead => status'[t] = status[t]]_vars
    <2> SUFFICES ASSUME IInv, Next, NEW d \in Tasks, status[d] \in Dead
                 PROVE  status'[d] = status[d]
      BY DEF vars
    <2> USE DEF IInv, Dead
    <2>1. ASSUME NEW c \in Cores, DoSchedule(c) PROVE status'[d] = status[d]
      BY <2>1 DEF DoSchedule, SwitchTo, Requeue, StatusInv, TypeOK
    <2>2. ASSUME NEW c \in Cores, NEW t \in Tasks, ExitMark(c, t) \/ WaitBlock(c, t)
          PROVE  status'[d] = status[d]
      BY <2>2 DEF ExitMark, WaitBlock, SwitchTo, At, RunningInv, StatusInv, TypeOK, Finished
    <2>3. ASSUME NEW c \in Cores, NEW t \in Tasks, NEW n \in Tasks, status[n] = "UnInit",
                 \E s \in Status : status' = [status EXCEPT ![n] = s]
          PROVE  status'[d] = status[d]
      BY <2>3 DEF TypeOK
    <2>4. ASSUME NEW c \in Cores, NEW t \in Tasks,
                 \/ \E n \in Tasks, p \in {t, NoTask}, thread \in BOOLEAN, h \in Cores :
                      AddTask(c, t, n, p, thread, h)
                 \/ \E n \in Tasks, p \in {t, NoTask}, thread \in BOOLEAN :
                      AddTaskFails(c, t, n, p, thread)
                 \/ \E n \in Tasks, thread, sibling \in BOOLEAN : Clone(c, t, n, thread, sibling)
          PROVE  status'[d] = status[d]
      <3>1. PICK n \in Tasks :
              status[n] = "UnInit" /\ \E s \in Status : status' = [status EXCEPT ![n] = s]
        BY <2>4, SMTT(60) DEF AddTask, AddTaskFails, Clone, Status
      <3> QED
        BY <2>3, <3>1
    <2>5. ASSUME NEW c \in Cores, NEW t \in Tasks,
                 \/ AddTaskLock(c, t) \/ AddTaskEnqueue(c, t) \/ CloneFails(c, t)
                 \/ CloneInsert(c, t) \/ CloneAddTask(c, t) \/ Exit(c, t)
          PROVE  status' = status
      BY <2>5, SMTT(60)
      DEF AddTaskLock, AddTaskEnqueue, CloneFails, CloneInsert, CloneAddTask, Exit
    <2>6. ASSUME NEW c \in Cores, NEW t \in Tasks,
                 \/ ReparentChildren(c, t) \/ ExitNotify(c, t) \/ ReapTask(c, t)
                 \/ ReapTaskDelete(c, t) \/ WaitErase(c, t) \/ WaitDelete(c, t)
                 \/ \E want \in Tasks \union {AnyChild}, no_hang, untraced \in BOOLEAN :
                      WaitScan(c, t, want, no_hang, untraced)
          PROVE  status' = status
      BY <2>6, SMTT(60)
      DEF ReparentChildren, ExitNotify, ReapTask, ReapTaskDelete, WaitScan, WaitErase, WaitDelete
    <2>7. ASSUME NEW c \in Cores, NEW t \in Tasks, TaskStep(c, t) PROVE status'[d] = status[d]
      <3>1. CASE ExitSchedule(c, t)
        BY <2>1, <3>1 DEF ExitSchedule
      <3> QED
        BY <2>2, <2>4, <2>5, <2>6, <2>7, <3>1, ZenonT(60) DEF TaskStep
    <2>8. ASSUME NEW c \in Cores, Schedule(c) PROVE status'[d] = status[d]
      BY <2>1, <2>8 DEF Schedule
    <2> QED
      BY <2>7, <2>8, ZenonT(30) DEF Next
  <1> QED
    BY <1>1, Invariance, PTL DEF Spec, DeadStaysDead
=============================================================================
