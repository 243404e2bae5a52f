------------------------- MODULE TaskManagerProofs --------------------------
(***************************************************************************)
(* Block, Wakeup, the tick, Schedule and switch_to preserve the inductive  *)
(* invariant of TaskManager, and the safety properties follow from it and  *)
(* hold as well with the tasks that use Mutex.                             *)
(***************************************************************************)
EXTENDS TaskManagerFacts, Mutex

USE ZenonT(60)

\* The lists and the tasks being added stay as they are, and so does who is current and
\* waits where, in a step that leaves alone the variables these are about.
LEMMA ListsKept ==
  ASSUME QueueInv, BlockInv, AddInv,
         UNCHANGED <<queue, status, policy, adding, dropped, blocked, blocked_on, call>>
  PROVE  QueueInv' /\ BlockInv' /\ AddInv'
  <1>1. QueueInv'
    BY SMTT(120) DEF QueueInv, BeingAdded
  <1>2. BlockInv' /\ AddInv'
    BY SMTT(120) DEF BlockInv, AddInv
  <1> QED
    BY <1>1, <1>2

LEMMA CurrentKept ==
  ASSUME IdleInv, RunInv, WaitInv,
         UNCHANGED <<running, booted, status, call, sleeping, blocked>>
  PROVE  IdleInv' /\ RunInv' /\ WaitInv'
  <1>1. IdleInv' /\ RunInv'
    BY SMTT(120) DEF IdleInv, RunInv
  <1>2. WaitInv'
    BY SMTT(120) DEF WaitInv
  <1> QED
    BY <1>1, <1>2

\* Block up to its Schedule.
LEMMA BlockStep ==
  ASSUME IInv, NEW c \in Cores, NEW t \in AllTasks, NEW r \in Resources,
         NEW after \in {"sched", "sched_masked"}, Block(c, t, r, after)
  PROVE  IInv'
  <1> USE DEF IInv
  <1>1. t \in Tasks /\ Caller(c, t)
    BY DEF Block
  <1>2. /\ running[c] = t /\ mode[c] = "run" /\ call[t] = "none" /\ status[t] = "Running"
        /\ \A d \in Cores, p \in Queues : ~In(queue, d, p, t)
        /\ \A d \in Cores, m \in Resources : ~In(blocked, d, m, t)
        /\ \A d \in Cores : t \notin sleeping[d]
        /\ \A d \in Cores : running[d] = t => d = c
    BY <1>1, CallerFacts
  <1>3. /\ status' = [status EXCEPT ![t] = "Blocked"]
        /\ blocked_on' = [blocked_on EXCEPT ![t] = r]
        /\ blocked' = [blocked EXCEPT ![c][r] = Append(@, t)]
        /\ call' = [call EXCEPT ![t] = after]
    BY DEF Block
  <1>4. UNCHANGED <<online, booted, running, queue, slice, sleeping, wake_tick, adding, dropped,
                    policy, mode, waking, need_preempt>>
    BY DEF Block, coreVars, addVars, tickVars
  <1>5. /\ \A u \in AllTasks : status'[u] = IF u = t THEN "Blocked" ELSE status[u]
        /\ \A u \in AllTasks : call'[u] = IF u = t THEN after ELSE call[u]
        /\ \A u \in Tasks : blocked_on'[u] = IF u = t THEN r ELSE blocked_on[u]
    BY <1>1, <1>3, IdleFacts DEF TypeOK
  <1>6. Appended(blocked, blocked', Resources, c, r, t)
    <2>1. blocked \in Lists(Resources) /\ Once(blocked, Resources)
      BY DEF TypeOK, Lists, BlockInv
    <2> QED
      BY <1>1, <1>2, <1>3, <2>1, AppendFacts
  <1>7. /\ blocked' \in Lists(Resources) /\ Once(blocked', Resources)
        /\ \A d \in Cores, m \in Resources, u \in Tasks :
             In(blocked', d, m, u) <=> In(blocked, d, m, u) \/ (d = c /\ m = r /\ u = t)
        /\ \A d \in Cores, m \in Resources : d # c => blocked'[d][m] = blocked[d][m]
    BY <1>6 DEF Appended
  <1>8. TypeOK'
    <2>1. status' \in [AllTasks -> Status] /\ call' \in [AllTasks -> Calls]
      BY <1>3 DEF TypeOK, Status, Calls
    <2>2. blocked_on' \in [Tasks -> Resources \union {NoResource}]
      BY <1>3 DEF TypeOK
    <2> QED
      BY <1>4, <1>7, <2>1, <2>2 DEF TypeOK, Lists
  <1>9. QueueInv'
    BY SMTT(120), <1>2, <1>4, <1>5, IdleFacts DEF QueueInv, BeingAdded
  <1>10. BlockInv'
    BY SMTT(120), <1>1, <1>2, <1>5, <1>7, IdleFacts DEF BlockInv
  <1>11. NoOverdueSleeper'
    BY <1>2, <1>4, <1>5, IdleFacts DEF NoOverdueSleeper
  <1>12. AddInv'
    <2>1. \A u \in AllTasks : adding[u][1] \in Tasks \union {NoTask}
      BY DEF TypeOK
    <2>2. dropped \subseteq Tasks
      BY DEF TypeOK
    <2>3. AddInv /\ adding' = adding /\ dropped' = dropped
      BY <1>4
    <2>4. \A u \in AllTasks : (call'[u] = "enqueue") <=> (call[u] = "enqueue")
      BY ONLY after \in {"sched", "sched_masked"}, <1>2, <1>5, SMTT(120)
    <2>5. \A x \in Tasks : status[x] = "Ready" => status'[x] = "Ready"
      BY ONLY <1>2, <1>5, IdleFacts, SMTT(120)
    <2> QED
      BY ONLY <2>1, <2>2, <2>3, <2>4, <2>5, ZenonT(60) DEF AddInv
  <1>13. IdleInv'
    <2>1. \A d \in Cores : status'[Idle(d)] = status[Idle(d)] /\ call'[Idle(d)] = call[Idle(d)]
      BY <1>1, <1>5, IdleFacts
    <2> QED
      BY <1>4, <2>1 DEF IdleInv
  <1>14. RunInv'
    BY SMTT(120), <1>2, <1>4, <1>5, IdleFacts DEF RunInv
  <1>15. CallInv'
    <2>1. \A d \in Cores : mode[d] = "wakeup" =>
            d # c /\ running[d] # t /\ running[d] \in AllTasks
      BY <1>2 DEF TypeOK
    <2>2. \A x \in Tasks : call'[x] = "sched_masked" =>
            \E d \in Cores : running'[d] = x /\ mode'[d] = "run"
      BY SMTT(120), <1>2, <1>4, <1>5, IdleFacts DEF CallInv
    <2>3. \A d \in Cores : mode'[d] = "wakeup" =>
            /\ call'[running'[d]] = "none"
            /\ waking'[d] \in Resources /\ blocked'[d][waking'[d]] # <<>>
      BY SMTT(120), <1>4, <1>5, <1>7, <2>1 DEF CallInv
    <2> QED
      BY <2>2, <2>3 DEF CallInv
  <1>16. WaitInv'
    <2>1. \A x \in Tasks : x \in AllTasks
      BY IdleFacts
    <2> QED
      BY SMTT(120), <1>2, <1>4, <1>5, <1>7, <2>1 DEF WaitInv
  <1>17. SliceInv'
    BY <1>4, <1>5 DEF SliceInv, TypeOK
  <1> QED
    BY <1>8, <1>9, <1>10, <1>11, <1>12, <1>13, <1>14, <1>15, <1>16, <1>17

\* Wakeup finds waiting tasks.
LEMMA WakeupStep ==
  ASSUME IInv, NEW c \in Cores, NEW t \in AllTasks, NEW r \in Resources, Wakeup(c, t, r)
  PROVE  IInv'
  <1> USE DEF IInv
  <1>1. t \in Tasks /\ Caller(c, t)
    BY DEF Wakeup
  <1>2. running[c] = t /\ mode[c] = "run" /\ call[t] = "none"
    BY <1>1, CallerFacts
  <1>3. UNCHANGED <<online, booted, status, running, queue, slice, sleeping, wake_tick, blocked,
                    blocked_on, call, adding, dropped, policy, need_preempt>>
    BY DEF Wakeup, coreVars, addVars
  <1>4. /\ \A d \in Cores : mode'[d] = IF d = c THEN "wakeup" ELSE mode[d]
        /\ \A d \in Cores : waking'[d] = IF d = c THEN r ELSE waking[d]
        /\ mode' \in [Cores -> Modes] /\ waking' \in [Cores -> Resources \union {NoResource}]
        /\ blocked[c][r] # <<>>
    BY DEF Wakeup, TypeOK, Modes
  <1>5. TypeOK'
    BY <1>3, <1>4 DEF TypeOK
  <1>6. QueueInv' /\ BlockInv' /\ AddInv'
    BY <1>3, ListsKept
  <1>7. NoOverdueSleeper'
    BY <1>2, <1>3, <1>4 DEF NoOverdueSleeper
  <1>8. IdleInv' /\ RunInv' /\ WaitInv'
    BY <1>3, CurrentKept
  <1>9. CallInv'
    <2>1. \A x \in Tasks : call'[x] = "sched_masked" =>
            \E d \in Cores : running'[d] = x /\ mode'[d] = "run"
      BY SMTT(120), <1>2, <1>3, <1>4 DEF CallInv
    <2>2. \A d \in Cores : mode'[d] = "wakeup" =>
            /\ call'[running'[d]] = "none"
            /\ waking'[d] \in Resources /\ blocked'[d][waking'[d]] # <<>>
      BY SMTT(120), <1>2, <1>3, <1>4 DEF CallInv
    <2> QED
      BY <2>1, <2>2 DEF CallInv
  <1>10. SliceInv'
    BY <1>2, <1>3, <1>4 DEF SliceInv
  <1> QED
    BY <1>5, <1>6, <1>7, <1>8, <1>9, <1>10

\* One iteration of Wakeup: the task it finds is current on no core.
LEMMA WakeupOneStep ==
  ASSUME IInv, NEW c \in Cores, WakeupOne(c)
  PROVE  IInv'
  <1> USE DEF IInv
  <1> DEFINE r == waking[c]
             t == Head(blocked[c][r])
  <1>1. /\ mode[c] = "wakeup"
        /\ blocked' = [blocked EXCEPT ![c][r] = Tail(@)]
        /\ status' = [status EXCEPT ![t] = "Ready"]
        /\ blocked_on' = [blocked_on EXCEPT ![t] = NoResource]
        /\ queue' = [queue EXCEPT ![c] = Enqueue(@, t)]
        /\ slice' = SliceOnEnqueue(slice, t)
        /\ IF Len(blocked[c][r]) = 1
           THEN /\ mode' = [mode EXCEPT ![c] = "run"]
                /\ waking' = [waking EXCEPT ![c] = NoResource]
           ELSE mode' = mode /\ waking' = waking
    BY DEF WakeupOne
  <1>2. UNCHANGED <<online, booted, running, sleeping, wake_tick, call, adding, dropped, policy,
                    need_preempt>>
    BY DEF WakeupOne, coreVars, addVars
  <1>3. r \in Resources /\ blocked[c][r] # <<>> /\ call[running[c]] = "none"
    BY <1>1 DEF CallInv
  <1> HIDE DEF r, t
  <1>4. Removed(blocked, blocked', Resources, c, r, t)
    <2>1. blocked \in Lists(Resources) /\ Once(blocked, Resources)
      BY DEF TypeOK, Lists, BlockInv
    <2> QED
      BY <1>1, <1>3, <2>1, TailFacts DEF t
  <1>5. /\ blocked' \in Lists(Resources) /\ Once(blocked', Resources)
        /\ t \in Tasks /\ In(blocked, c, r, t)
        /\ \A d \in Cores, m \in Resources, u \in Tasks :
             In(blocked', d, m, u) <=> In(blocked, d, m, u) /\ ~(d = c /\ m = r /\ u = t)
        /\ blocked'[c][r] = <<>> <=> Len(blocked[c][r]) = 1
        /\ \A d \in Cores, m \in Resources : d # c => blocked'[d][m] = blocked[d][m]
    BY <1>4 DEF Removed
  <1>6. status[t] = "Blocked" /\ blocked_on[t] = r /\ \A d \in Cores : running[d] # t
    BY SMTT(120), <1>3, <1>5 DEF BlockInv, WaitInv
  <1>7. \A d \in Cores, m \in Resources : ~In(blocked', d, m, t)
    <2>1. \A d \in Cores, m \in Resources : In(blocked, d, m, t) => d = c /\ m = r
      <3>1. \A d \in Cores : In(blocked, d, r, t) => d = c
        BY SMTT(120), <1>3, <1>5 DEF BlockInv, Once, In
      <3> QED
        BY SMTT(120), <1>5, <1>6, <3>1 DEF BlockInv
    <2> QED
      BY <1>5, <2>1
  <1>8. /\ \A u \in AllTasks : status'[u] = IF u = t THEN "Ready" ELSE status[u]
        /\ \A u \in Tasks : blocked_on'[u] = IF u = t THEN NoResource ELSE blocked_on[u]
    BY <1>1, <1>5, IdleFacts DEF TypeOK
  <1>9. Appended(queue, queue', Queues, c, policy[t], t)
    <2>1. Once(queue, Queues) /\ \A d \in Cores : ~In(queue, d, policy[t], t)
      BY <1>5, <1>6, PolicyFacts DEF QueueInv
    <2> QED
      BY <1>1, <1>5, <2>1, EnqueueFacts
  <1>10. /\ queue' \in Lists(Queues) /\ Once(queue', Queues)
         /\ \A d \in Cores, p \in Queues, u \in Tasks :
              In(queue', d, p, u) <=> In(queue, d, p, u) \/ (d = c /\ p = policy[t] /\ u = t)
    BY <1>9 DEF Appended
  <1>11. /\ slice' \in [AllTasks -> 0 .. TimeSlice]
         /\ \A u \in AllTasks : slice'[u] \in {slice[u], TimeSlice}
    BY <1>1, <1>5, SliceFacts
  <1>12. /\ mode' \in [Cores -> Modes] /\ waking' \in [Cores -> Resources \union {NoResource}]
         /\ \A d \in Cores : d # c => mode'[d] = mode[d] /\ waking'[d] = waking[d]
         /\ mode[c] = "wakeup" /\ mode'[c] \in {"run", "wakeup"}
         /\ mode'[c] = "wakeup" => waking'[c] = r /\ blocked'[c][r] # <<>>
    <2>1. CASE Len(blocked[c][r]) = 1
      BY <1>1, <2>1 DEF TypeOK, Modes
    <2>2. CASE Len(blocked[c][r]) # 1
      BY <1>1, <1>5, <2>2 DEF TypeOK, r
    <2> QED
      BY <2>1, <2>2
  <1>13. TypeOK'
    <2>1. status' \in [AllTasks -> Status]
      BY <1>1 DEF TypeOK, Status
    <2>2. blocked_on' \in [Tasks -> Resources \union {NoResource}]
      BY <1>1 DEF TypeOK
    <2> QED
      BY <1>2, <1>5, <1>10, <1>11, <1>12, <2>1, <2>2 DEF TypeOK, Lists
  <1>14. QueueInv'
    <2>1. ~BeingAdded(t) /\ t \notin dropped
      BY <1>5, <1>6, IdleFacts DEF AddInv, BeingAdded
    <2>2. \A x \in Tasks : BeingAdded(x)' <=> BeingAdded(x)
      BY <1>2 DEF BeingAdded
    <2>3. \A x \in Tasks : status'[x] = IF x = t THEN "Ready" ELSE status[x]
      BY <1>8, IdleFacts
    <2>4. \A d \in Cores, p \in Queues, x \in Tasks : In(queue', d, p, x) =>
            status'[x] = "Ready" /\ policy[x] = p /\ ~BeingAdded(x)' /\ x \notin dropped
      BY SMTT(120), <1>10, <2>1, <2>2, <2>3 DEF QueueInv
    <2>5. \A x \in Tasks : status'[x] = "Ready" /\ ~BeingAdded(x)' /\ x \notin dropped =>
            \E d \in Cores : In(queue', d, policy[x], x)
      BY <1>10, <2>2, <2>3, PolicyFacts DEF QueueInv
    <2> QED
      BY <1>2, <1>10, <2>4, <2>5 DEF QueueInv
  <1>15. BlockInv'
    <2>1. \A x \in Tasks : status'[x] = IF x = t THEN "Ready" ELSE status[x]
      BY <1>8, IdleFacts
    <2> QED
      BY SMTT(120), <1>5, <1>7, <1>8, <2>1 DEF BlockInv
  <1>16. NoOverdueSleeper'
    <2>1. \A x \in Tasks : status'[x] = "Sleeping" <=> status[x] = "Sleeping"
      BY <1>6, <1>8, IdleFacts
    <2>2. \A d \in Cores : mode'[d] # "tick" => mode[d] # "tick"
      BY <1>12
    <2> QED
      BY <1>2, <2>1, <2>2 DEF NoOverdueSleeper
  <1>17. AddInv'
    <2>1. \A u \in AllTasks : adding[u][1] \in Tasks \union {NoTask}
      BY DEF TypeOK
    <2>2. dropped \subseteq Tasks
      BY DEF TypeOK
    <2> QED
      BY <1>2, <1>8, <2>1, <2>2, IdleFacts DEF AddInv
  <1>18. IdleInv'
    <2>1. \A d \in Cores : status'[Idle(d)] = status[Idle(d)]
      BY <1>5, <1>8, IdleFacts
    <2> QED
      BY <1>2, <2>1 DEF IdleInv
  <1>19. RunInv'
    <2>1. \A x \in Tasks : x # t => status'[x] = status[x]
      BY <1>8, IdleFacts
    <2>2. status'[t] = "Ready"
      BY <1>5, <1>8, IdleFacts
    <2> QED
      BY <1>2, <1>6, <2>1, <2>2 DEF RunInv
  <1>20. CallInv'
    <2>1. \A x \in Tasks : call'[x] = "sched_masked" =>
            \E d \in Cores : running'[d] = x /\ mode'[d] = "run"
      BY SMTT(120), <1>2, <1>12 DEF CallInv
    <2>2. \A d \in Cores : mode'[d] = "wakeup" =>
            /\ call'[running'[d]] = "none"
            /\ waking'[d] \in Resources /\ blocked'[d][waking'[d]] # <<>>
      BY SMTT(120), <1>2, <1>3, <1>5, <1>12 DEF CallInv
    <2> QED
      BY <2>1, <2>2 DEF CallInv
  <1>21. WaitInv'
    BY SMTT(120), <1>2, <1>5 DEF WaitInv
  <1>22. SliceInv'
    <2>1. TimeSlice > 0 /\ \A d \in Cores : running[d] \in AllTasks
      BY SMTT(120), ConstantsAssumption DEF TypeOK
    <2>2. \A d \in Cores : status'[running[d]] = status[running[d]]
      BY <1>6, <1>8, <2>1
    <2>3. \A d \in Cores : mode'[d] \in {"run", "wakeup"} => mode[d] \in {"run", "wakeup"}
      BY <1>12
    <2> QED
      BY <1>2, <1>11, <2>1, <2>2, <2>3 DEF SliceInv
  <1> QED
    BY <1>13, <1>14, <1>15, <1>16, <1>17, <1>18, <1>19, <1>20, <1>21, <1>22

\* The timer interrupt arrives.
LEMMA TickStep ==
  ASSUME IInv, NEW c \in Cores, Tick(c)
  PROVE  IInv'
  <1> USE DEF IInv
  <1>1. mode[c] = "run" /\ call[running[c]] # "sched_masked"
    BY DEF Tick, Runs
  <1>2. UNCHANGED <<online, booted, status, running, queue, slice, sleeping, blocked, blocked_on,
                    call, adding, dropped, policy, waking>>
    BY DEF Tick, coreVars, addVars
  <1>3. /\ \A d \in Cores : mode'[d] = IF d = c THEN "tick" ELSE mode[d]
        /\ mode' \in [Cores -> Modes] /\ need_preempt' \in [Cores -> BOOLEAN]
    BY DEF Tick, TypeOK, Modes
  <1>4. /\ wake_tick' \in [Tasks -> Int]
        /\ \A x \in Tasks : x \notin sleeping[c] => wake_tick'[x] = wake_tick[x]
    BY SMTT(120) DEF Tick, AfterTick, TypeOK
  <1>5. TypeOK'
    BY <1>2, <1>3, <1>4 DEF TypeOK
  <1>6. QueueInv' /\ BlockInv' /\ AddInv'
    BY <1>2, ListsKept
  <1>7. NoOverdueSleeper'
    <2>1. \A d \in Cores : sleeping[d] \subseteq Tasks
      BY DEF TypeOK
    <2> QED
      BY <1>2, <1>3, <1>4, <2>1 DEF NoOverdueSleeper
  <1>8. IdleInv' /\ RunInv' /\ WaitInv'
    BY <1>2, CurrentKept
  <1>9. CallInv'
    BY SMTT(120), <1>1, <1>2, <1>3 DEF CallInv
  <1>10. SliceInv'
    BY <1>2, <1>3 DEF SliceInv
  <1> QED
    BY <1>5, <1>6, <1>7, <1>8, <1>9, <1>10

\* One iteration of the wake-up loop of TickUpdate: the sleeper is current on no core.
LEMMA TickWakeStep ==
  ASSUME IInv, NEW c \in Cores, NEW t \in AllTasks, TickWake(c, t)
  PROVE  IInv'
  <1> USE DEF IInv
  <1>1. mode[c] = "tick" /\ t \in sleeping[c] /\ t \in Tasks
    BY DEF TickWake, Top, TypeOK
  <1>2. status[t] = "Sleeping" /\ \A d \in Cores : running[d] # t
    <2>1. status[t] = "Sleeping"
      BY <1>1 DEF NoOverdueSleeper
    <2>2. ASSUME NEW d \in Cores, running[d] = t PROVE FALSE
      <3>1. d = c /\ call[t] = "sched_masked"
        BY <1>1, <2>2 DEF WaitInv
      <3> QED
        BY SMTT(60), <1>1, <2>2, <3>1 DEF CallInv, RunInv
    <2> QED
      BY <2>1, <2>2
  <1>3. /\ sleeping' = [sleeping EXCEPT ![c] = @ \ {t}]
        /\ status' = [status EXCEPT ![t] = "Ready"]
        /\ queue' = [queue EXCEPT ![c] = Enqueue(@, t)]
        /\ slice' = SliceOnEnqueue(slice, t)
        /\ need_preempt' = [need_preempt EXCEPT ![c] = TRUE]
    BY <1>2 DEF TickWake
  <1>4. UNCHANGED <<online, booted, running, wake_tick, blocked, blocked_on, call, adding, dropped,
                    policy, mode, waking>>
    BY DEF TickWake, coreVars, addVars
  <1>5. /\ \A x \in AllTasks : status'[x] = IF x = t THEN "Ready" ELSE status[x]
        /\ \A d \in Cores : sleeping'[d] = IF d = c THEN sleeping[d] \ {t} ELSE sleeping[d]
    BY <1>3 DEF TypeOK
  <1>6. Appended(queue, queue', Queues, c, policy[t], t)
    <2>1. Once(queue, Queues) /\ \A d \in Cores : ~In(queue, d, policy[t], t)
      BY <1>1, <1>2, PolicyFacts DEF QueueInv
    <2> QED
      BY <1>1, <1>3, <2>1, EnqueueFacts
  <1>7. /\ queue' \in Lists(Queues) /\ Once(queue', Queues)
        /\ \A d \in Cores, p \in Queues, u \in Tasks :
             In(queue', d, p, u) <=> In(queue, d, p, u) \/ (d = c /\ p = policy[t] /\ u = t)
    BY <1>6 DEF Appended
  <1>8. /\ slice' \in [AllTasks -> 0 .. TimeSlice]
        /\ \A u \in AllTasks : slice'[u] \in {slice[u], TimeSlice}
    BY <1>1, <1>3, SliceFacts
  <1>9. TypeOK'
    <2>1. status' \in [AllTasks -> Status] /\ sleeping' \in [Cores -> SUBSET Tasks]
      BY <1>3 DEF TypeOK, Status
    <2>2. need_preempt' \in [Cores -> BOOLEAN]
      BY <1>3 DEF TypeOK
    <2> QED
      BY <1>4, <1>7, <1>8, <2>1, <2>2 DEF TypeOK, Lists
  <1>10. QueueInv'
    <2>1. ~BeingAdded(t) /\ t \notin dropped
      BY <1>1, <1>2, IdleFacts DEF AddInv, BeingAdded
    <2>2. \A x \in Tasks : BeingAdded(x)' <=> BeingAdded(x)
      BY <1>4 DEF BeingAdded
    <2>3. \A x \in Tasks : status'[x] = IF x = t THEN "Ready" ELSE status[x]
      BY <1>5, IdleFacts
    <2>4. \A d \in Cores, p \in Queues, x \in Tasks : In(queue', d, p, x) =>
            status'[x] = "Ready" /\ policy[x] = p /\ ~BeingAdded(x)' /\ x \notin dropped
      BY SMTT(60), <1>7, <2>1, <2>2, <2>3 DEF QueueInv
    <2>5. \A x \in Tasks : status'[x] = "Ready" /\ ~BeingAdded(x)' /\ x \notin dropped =>
            \E d \in Cores : In(queue', d, policy[x], x)
      BY <1>7, <2>2, <2>3, PolicyFacts DEF QueueInv
    <2> QED
      BY <1>4, <1>7, <2>4, <2>5 DEF QueueInv
  <1>11. BlockInv'
    BY SMTT(60), <1>2, <1>4, <1>5, IdleFacts DEF BlockInv
  <1>12. NoOverdueSleeper'
    <2>1. \A x \in Tasks : status'[x] = IF x = t THEN "Ready" ELSE status[x]
      BY <1>5, IdleFacts
    <2>2. \A d \in Cores : t \in sleeping[d] => d = c
      BY <1>1 DEF NoOverdueSleeper
    <2>3. \A d \in Cores, x \in Tasks : x \in sleeping'[d] <=> x \in sleeping[d] /\ x # t
      BY <1>5, <2>2
    <2>4. \A x \in Tasks : status'[x] = "Sleeping" <=> \E d \in Cores : x \in sleeping'[d]
      BY <2>1, <2>3 DEF NoOverdueSleeper
    <2>5. \A d, e \in Cores : d # e => sleeping'[d] \intersect sleeping'[e] = {}
      BY <1>5 DEF NoOverdueSleeper
    <2>6. \A d \in Cores : mode[d] # "tick" => \A x \in sleeping[d] : wake_tick[x] > 0
      BY DEF NoOverdueSleeper
    <2>7. \A d \in Cores : mode[d] # "tick" => \A x \in sleeping'[d] : wake_tick[x] > 0
      BY <1>1, <1>5, <2>6
    <2> QED
      BY <1>4, <2>4, <2>5, <2>7 DEF NoOverdueSleeper
  <1>13. AddInv'
    <2>1. \A u \in AllTasks : adding[u][1] \in Tasks \union {NoTask}
      BY DEF TypeOK
    <2>2. dropped \subseteq Tasks
      BY DEF TypeOK
    <2> QED
      BY <1>4, <1>5, <2>1, <2>2, IdleFacts DEF AddInv
  <1>14. IdleInv'
    <2>1. \A d \in Cores : status'[Idle(d)] = status[Idle(d)]
      BY <1>1, <1>5, IdleFacts
    <2> QED
      BY <1>4, <2>1 DEF IdleInv
  <1>15. RunInv'
    <2>1. status'[t] = "Ready" /\ \A x \in Tasks : x # t => status'[x] = status[x]
      BY <1>5, IdleFacts
    <2> QED
      BY <1>2, <1>4, <2>1 DEF RunInv
  <1>16. CallInv'
    BY <1>4 DEF CallInv
  <1>17. WaitInv'
    BY <1>4, <1>5 DEF WaitInv
  <1>18. SliceInv'
    <2>1. TimeSlice > 0 /\ \A d \in Cores : running[d] \in AllTasks
      BY SMTT(60), ConstantsAssumption DEF TypeOK
    <2>2. \A d \in Cores : status'[running[d]] = status[running[d]]
      BY <1>2, <1>5, <2>1
    <2> QED
      BY <1>4, <1>8, <2>1, <2>2 DEF SliceInv
  <1> QED
    BY <1>9, <1>10, <1>11, <1>12, <1>13, <1>14, <1>15, <1>16, <1>17, <1>18

\* The end of the locked region of TickUpdate.
LEMMA TickAccountStep ==
  ASSUME IInv, NEW c \in Cores, TickAccount(c)
  PROVE  IInv'
  <1> USE DEF IInv
  <1>1. /\ mode[c] = "tick"
        /\ sleeping[c] = {} \/ \E x \in sleeping[c] : Top(c, x) /\ wake_tick[x] > 0
        /\ slice' = IF status[running[c]] = "Running"
                    THEN [slice EXCEPT ![running[c]] = SliceLeft(c)] ELSE slice
        /\ mode' = [mode EXCEPT ![c] = IF MustPreempt(c) THEN "resched" ELSE "run"]
        /\ need_preempt' = [need_preempt EXCEPT ![c] = FALSE]
    BY DEF TickAccount
  <1>2. UNCHANGED <<online, booted, status, running, queue, sleeping, wake_tick, blocked,
                    blocked_on, call, adding, dropped, policy, waking>>
    BY DEF TickAccount, coreVars, addVars
  <1>3. \A d \in Cores : running[d] \in AllTasks
    BY DEF TypeOK
  <1>4. SliceLeft(c) \in 0 .. TimeSlice
    <2>1. slice[running[c]] \in 0 .. TimeSlice /\ TimeSlice \in Nat
      BY <1>3, ConstantsAssumption DEF TypeOK
    <2> QED
      BY SMTT(60), <2>1 DEF SliceLeft
  <1>5. /\ slice' \in [AllTasks -> 0 .. TimeSlice]
        /\ \A u \in AllTasks : u # running[c] => slice'[u] = slice[u]
        /\ status[running[c]] = "Running" => slice'[running[c]] = SliceLeft(c)
    BY <1>1, <1>3, <1>4 DEF TypeOK
  <1>6. /\ mode' \in [Cores -> Modes] /\ need_preempt' \in [Cores -> BOOLEAN]
        /\ mode'[c] = IF MustPreempt(c) THEN "resched" ELSE "run"
        /\ \A d \in Cores : d # c => mode'[d] = mode[d]
    BY <1>1 DEF TypeOK, Modes
  <1>7. TypeOK'
    BY <1>2, <1>5, <1>6 DEF TypeOK
  <1>8. QueueInv' /\ BlockInv' /\ AddInv'
    BY <1>2, ListsKept
  <1>9. NoOverdueSleeper'
    <2>1. sleeping[c] \subseteq Tasks /\ \A x \in Tasks : wake_tick[x] \in Int
      BY DEF TypeOK
    <2>2. \A x \in sleeping[c] : wake_tick[x] > 0
      <3>1. SUFFICES ASSUME sleeping[c] # {}
                     PROVE  \A x \in sleeping[c] : wake_tick[x] > 0
        OBVIOUS
      <3>2. PICK y \in sleeping[c] : Top(c, y) /\ wake_tick[y] > 0
        BY <1>1, <3>1
      <3>3. \A x \in sleeping[c] : wake_tick[y] <= wake_tick[x]
        BY <3>2 DEF Top
      <3> QED
        BY ONLY <2>1, <3>2, <3>3, SMTT(60)
    <2> QED
      BY <1>2, <1>6, <2>2 DEF NoOverdueSleeper
  <1>10. IdleInv' /\ RunInv' /\ WaitInv'
    BY <1>2, CurrentKept
  <1>11. CallInv'
    BY <1>1, <1>2, <1>6 DEF CallInv
  <1>12. SliceInv'
    <2> SUFFICES ASSUME NEW d \in Cores, booted[d], mode'[d] \in {"run", "wakeup"},
                        status[running[d]] = "Running"
                 PROVE  slice'[running[d]] > 0
      BY <1>2 DEF SliceInv
    <2>1. CASE d = c
      BY SMTT(60), <1>4, <1>5, <1>6, <2>1 DEF MustPreempt
    <2>2. CASE d # c
      BY SMTT(60), <1>3, <1>5, <1>6, <2>2 DEF SliceInv, RunInv
    <2> QED
      BY <2>1, <2>2
  <1> QED
    BY <1>7, <1>8, <1>9, <1>10, <1>11, <1>12

\* Schedule, called by task code or by TickUpdate.
LEMMA SwitchedStep ==
  ASSUME IInv, NEW c \in Cores, NEW next \in Tasks \union {Idle(c)},
         Switched(c, running[c], next),
         \/ /\ mode[c] = "run" /\ call[running[c]] # "enqueue"
            /\ call' = [call EXCEPT ![running[c]] = "none"] /\ mode' = mode
         \/ mode[c] = "resched" /\ mode' = [mode EXCEPT ![c] = "run"] /\ call' = call
  PROVE  IInv'
  <1> USE DEF IInv
  <1> DEFINE current == running[c]
  <1>1. /\ next # current /\ next \in Tasks =>
             status[next] = "Ready" /\ \E p \in Queues : In(queue, c, p, next)
        /\ next = current /\ next \in Tasks => status[next] = "Running"
        /\ status' \in [AllTasks -> Status] /\ status'[next] = "Running"
        /\ current # next =>
             status'[current] = IF status[current] = "Running" THEN "Ready" ELSE status[current]
        /\ \A u \in AllTasks : u # next /\ u # current => status'[u] = status[u]
    BY DEF Switched
  <1>2. /\ queue' \in Lists(Queues) /\ Once(queue', Queues)
        /\ \A d \in Cores, p \in Queues, u \in Tasks : In(queue', d, p, u) <=>
             /\ \/ In(queue, d, p, u)
                \/ status[current] = "Running" /\ d = c /\ p = policy[u] /\ u = current
             /\ ~(d = c /\ u = next)
    BY DEF Switched
  <1>3. /\ slice' \in [AllTasks -> 0 .. TimeSlice] /\ slice'[next] = TimeSlice
        /\ \A u \in AllTasks : slice'[u] \in {slice[u], TimeSlice}
    BY DEF Switched
  <1>4. UNCHANGED <<online, policy, sleeping, wake_tick, blocked, blocked_on, adding, dropped,
                    waking, need_preempt>>
    BY DEF Switched
  <1>5. /\ current \in AllTasks /\ next \in AllTasks /\ current \in Tasks \union {Idle(c)}
        /\ current \in Tasks => status[current] \in {"Running", "Sleeping", "Blocked"}
        /\ \A d \in Cores : d # c => running[d] \in AllTasks /\ running[d] # current
    <2>1. running[c] \in Tasks \union {Idle(c)} /\ \A d \in Cores : running[d] \in AllTasks
      BY DEF TypeOK, IdleInv
    <2>2. running[c] \in Tasks => status[running[c]] \in {"Running", "Sleeping", "Blocked"}
      BY DEF RunInv
    <2>3. \A d \in Cores : d # c => running[d] # running[c]
      BY DEF RunInv
    <2> QED
      BY <2>1, <2>2, <2>3, IdleFacts
  <1>6. /\ running' = [running EXCEPT ![c] = next] /\ booted' = [booted EXCEPT ![c] = TRUE]
        /\ running \in [Cores -> AllTasks] /\ booted \in [Cores -> BOOLEAN]
        /\ call \in [AllTasks -> Calls] /\ mode \in [Cores -> Modes]
    BY DEF Switched, TypeOK
  <1>7. /\ running'[c] = next /\ booted'[c] = TRUE
        /\ \A d \in Cores : d # c => running'[d] = running[d] /\ booted'[d] = booted[d]
    BY <1>6
  <1>8. /\ call' \in [AllTasks -> Calls] /\ mode' \in [Cores -> Modes]
        /\ call'[current] \in {call[current], "none"}
        /\ call'[current] = "enqueue" <=> call[current] = "enqueue"
        /\ \A u \in AllTasks : u # current => call'[u] = call[u]
        /\ mode[c] \in {"run", "resched"} /\ mode'[c] = "run"
        /\ mode[c] = "run" => call'[current] = "none"
        /\ \A d \in Cores : d # c => mode'[d] = mode[d]
    <2>1. CASE /\ mode[c] = "run" /\ call[running[c]] # "enqueue"
               /\ call' = [call EXCEPT ![running[c]] = "none"] /\ mode' = mode
      BY <1>5, <1>6, <2>1 DEF Calls
    <2>2. CASE mode[c] = "resched" /\ mode' = [mode EXCEPT ![c] = "run"] /\ call' = call
      BY <1>5, <1>6, <2>2 DEF Modes
    <2> QED
      BY <2>1, <2>2
  <1> HIDE DEF current
  <1>9. \A d \in Cores : d # c => running[d] # next
    <2>1. CASE next \in Tasks
      BY <1>1, <1>5, <2>1 DEF RunInv
    <2>2. CASE next = Idle(c)
      BY SMTT(60), <2>2, IdleFacts DEF IdleInv
    <2> QED
      BY <2>1, <2>2
  <1>10. \A x \in Tasks : status'[x] = "Ready" /\ x # current => status[x] = "Ready" /\ x # next
    BY <1>1, IdleFacts
  <1>11. TypeOK'
    BY <1>1, <1>2, <1>3, <1>4, <1>5, <1>6, <1>8 DEF TypeOK, Lists
  <1>12. QueueInv'
    <2>1. \A x \in Tasks : BeingAdded(x)' <=> BeingAdded(x)
      BY <1>4 DEF BeingAdded
    <2>2. ASSUME NEW d \in Cores, NEW p \in Queues, NEW x \in Tasks, In(queue', d, p, x)
          PROVE  status'[x] = "Ready" /\ policy[x] = p /\ ~BeingAdded(x)' /\ x \notin dropped
      <3>1. CASE In(queue, d, p, x)
        <4>1. status[x] = "Ready" /\ policy[x] = p /\ ~BeingAdded(x) /\ x \notin dropped
          BY <3>1 DEF QueueInv
        <4>2. x # current
          BY <1>5, <4>1
        <4>3. x # next
          <5> SUFFICES ASSUME x = next PROVE FALSE
            OBVIOUS
          <5>1. PICK m \in Queues : In(queue, c, m, x)
            BY <1>1, <4>2
          <5>2. m = p
            BY SMTT(60), <4>1, <5>1 DEF QueueInv
          <5>3. d = c
            BY SMTT(60), <3>1, <5>1, <5>2 DEF QueueInv, Once, In
          <5> QED
            BY <1>2, <2>2, <5>3
        <4> QED
          BY <1>1, <2>1, <4>1, <4>2, <4>3, IdleFacts
      <3>2. CASE ~In(queue, d, p, x)
        <4>1. status[current] = "Running" /\ p = policy[x] /\ x = current /\ x # next
          BY <1>2, <2>2, <3>2
        <4>2. ~BeingAdded(x) /\ x \notin dropped
          BY <4>1, IdleFacts DEF AddInv, BeingAdded
        <4> QED
          BY <1>1, <2>1, <4>1, <4>2
      <3> QED
        BY <3>1, <3>2
    <2>3. ASSUME NEW x \in Tasks, status'[x] = "Ready", ~BeingAdded(x)', x \notin dropped
          PROVE  \E d \in Cores : In(queue', d, policy[x], x)
      <3>1. CASE x = current
        BY <1>1, <1>2, <1>5, <2>3, <3>1, PolicyFacts
      <3>2. CASE x # current
        BY <1>2, <1>10, <2>1, <2>3, <3>2, PolicyFacts DEF QueueInv
      <3> QED
        BY <3>1, <3>2
    <2> QED
      BY SMTT(60), <1>2, <1>4, <2>2, <2>3 DEF QueueInv
  <1>13. \A x \in Tasks, s \in {"Sleeping", "Blocked"} : status'[x] = s <=> status[x] = s
    BY <1>1, <1>5, IdleFacts
  <1>14. BlockInv'
    BY SMTT(60), <1>4, <1>13 DEF BlockInv
  <1>15. NoOverdueSleeper'
    BY <1>4, <1>8, <1>13 DEF NoOverdueSleeper
  <1>16. AddInv'
    <2>1. \A x \in Tasks : status[x] = "Ready" /\ (BeingAdded(x) \/ x \in dropped) =>
            status'[x] = "Ready"
      BY SMTT(60), <1>1, <1>5, IdleFacts DEF QueueInv
    <2>2. \A u \in AllTasks : adding[u][1] \in Tasks \union {NoTask}
      BY DEF TypeOK
    <2>3. dropped \subseteq Tasks
      BY DEF TypeOK
    <2>4. \A u \in AllTasks : adding[u][1] # NoTask => BeingAdded(adding[u][1])
      BY DEF BeingAdded
    <2>5. \A u \in AllTasks : call'[u] = "enqueue" <=> call[u] = "enqueue"
      BY <1>8
    <2> QED
      BY <1>4, <2>1, <2>2, <2>3, <2>4, <2>5 DEF AddInv
  <1>17. IdleInv'
    <2> SUFFICES ASSUME NEW d \in Cores
                 PROVE  /\ running'[d] \in Tasks \union {Idle(d)}
                        /\ status'[Idle(d)] = "Running" => running'[d] = Idle(d) /\ booted'[d]
                        /\ status'[Idle(d)] \in {"Ready", "Running"}
                        /\ call'[Idle(d)] \in {"none", "enqueue"}
                        /\ booted'[d] /\ running'[d] = Idle(d) => status'[Idle(d)] = "Running"
                        /\ ~booted'[d] => running'[d] = Idle(d)
      BY DEF IdleInv
    <2>1. call'[Idle(d)] \in {"none", "enqueue"}
      BY <1>8, IdleFacts DEF IdleInv
    <2>2. CASE d = c
      BY SMTT(60), <1>1, <1>5, <1>7, <2>1, <2>2, IdleFacts DEF IdleInv, current
    <2>3. CASE d # c
      <3>1. Idle(d) # next /\ Idle(d) # current /\ Idle(d) \in AllTasks
        BY <1>5, <2>3, IdleFacts
      <3> QED
        BY SMTT(60), <1>1, <1>7, <2>1, <2>3, <3>1 DEF IdleInv
    <2> QED
      BY <2>2, <2>3
  <1>18. RunInv'
    <2>1. \A d, e \in Cores : running'[d] = running'[e] => d = e
      BY SMTT(60), <1>7, <1>9 DEF RunInv
    <2>2. \A x \in Tasks : status'[x] = "Running" => \E d \in Cores : running'[d] = x
      <3> SUFFICES ASSUME NEW x \in Tasks, status'[x] = "Running", x # next
                   PROVE  \E d \in Cores : running'[d] = x
        BY <1>7
      <3>1. x # current /\ status[x] = "Running"
        BY <1>1, IdleFacts
      <3> QED
        BY SMTT(60), <1>7, <3>1 DEF RunInv, current
    <2>3. ASSUME NEW d \in Cores, running'[d] \in Tasks
          PROVE  /\ status'[running'[d]] \in {"Running", "Sleeping", "Blocked"}
                 /\ call'[running'[d]] \in {"none", "enqueue"} => status'[running'[d]] = "Running"
      <3>1. CASE d = c
        BY <1>1, <1>7, <3>1
      <3>2. CASE d # c
        BY SMTT(60), <1>1, <1>5, <1>7, <1>8, <1>9, <2>3, <3>2 DEF RunInv
      <3> QED
        BY <3>1, <3>2
    <2> QED
      BY <2>1, <2>2, <2>3 DEF RunInv
  <1>19. CallInv'
    <2>1. ASSUME NEW x \in Tasks, call'[x] = "sched_masked"
          PROVE  \E d \in Cores : running'[d] = x /\ mode'[d] = "run"
      <3>1. call[x] = "sched_masked"
        BY <1>8, <2>1, IdleFacts
      <3>2. PICK d \in Cores : running[d] = x /\ mode[d] = "run"
        BY <3>1 DEF CallInv
      <3>3. d # c
        BY <1>8, <2>1, <3>2 DEF current
      <3> QED
        BY <1>7, <1>8, <3>2, <3>3
    <2>2. \A d \in Cores : mode'[d] = "wakeup" =>
            /\ call'[running'[d]] = "none"
            /\ waking'[d] \in Resources /\ blocked'[d][waking'[d]] # <<>>
      BY SMTT(60), <1>4, <1>5, <1>7, <1>8 DEF CallInv
    <2> QED
      BY <2>1, <2>2 DEF CallInv
  <1>20. WaitInv'
    <2>1. next \in Tasks => status[next] \in {"Ready", "Running"}
      BY <1>1
    <2> SUFFICES ASSUME NEW d \in Cores, NEW e \in Cores, NEW x \in Tasks, running'[d] = x
                 PROVE  /\ x \in sleeping[e] => e = d /\ call'[x] = "sched_masked"
                        /\ \A r \in Resources : In(blocked, e, r, x) =>
                             e = d /\ call'[x] \in {"sched", "sched_masked"}
      BY <1>4 DEF WaitInv
    <2>2. CASE d = c
      BY <1>7, <2>1, <2>2 DEF NoOverdueSleeper, BlockInv
    <2>3. CASE d # c
      BY SMTT(60), <1>5, <1>7, <1>8, <2>3 DEF WaitInv
    <2> QED
      BY <2>2, <2>3
  <1>21. SliceInv'
    <2>1. TimeSlice > 0
      BY SMTT(60), ConstantsAssumption
    <2>2. \A d \in Cores : d # c => status'[running[d]] = status[running[d]]
      BY <1>1, <1>5, <1>9
    <2> QED
      BY SMTT(60), <1>3, <1>5, <1>7, <1>8, <2>1, <2>2 DEF SliceInv
  <1> QED
    BY <1>11, <1>12, <1>14, <1>15, <1>16, <1>17, <1>18, <1>19, <1>20, <1>21

-----------------------------------------------------------------------------
(* The invariant *)

\* The state in which main and main_smp begin.
LEMMA InitIInv == Init => IInv
  <1> SUFFICES ASSUME Init PROVE IInv
    OBVIOUS
  <1> USE DEF Init
  <1>1. TypeOK
    <2>1. /\ queue \in [Cores -> [Queues -> Seq(Tasks)]]
          /\ blocked \in [Cores -> [Resources -> Seq(Tasks)]]
      BY SMTT(60)
    <2>2. adding \in [AllTasks -> (Tasks \union {NoTask}) \X Cores]
      BY ConstantsAssumption
    <2>3. slice \in [AllTasks -> 0 .. TimeSlice] /\ running \in [Cores -> AllTasks]
      BY SMTT(60), ConstantsAssumption, IdleFacts
    <2> QED
      BY SMTT(60), <2>1, <2>2, <2>3 DEF TypeOK, Status, Calls, Modes
  <1>2. /\ \A c \in Cores, p \in Queues, t \in Tasks : ~In(queue, c, p, t)
        /\ \A c \in Cores, r \in Resources, t \in Tasks : ~In(blocked, c, r, t)
        /\ Once(queue, Queues) /\ Once(blocked, Resources)
    BY SMTT(60) DEF In, Once
  <1>3. /\ \A t \in Tasks : status[t] = "UnInit"
        /\ \A c \in Cores : status[Idle(c)] = "Ready" /\ call[Idle(c)] = "none"
        /\ \A t \in AllTasks : adding[t][1] = NoTask /\ call[t] = "none"
    BY IdleFacts
  <1>4. QueueInv /\ BlockInv
    BY <1>2, <1>3 DEF QueueInv, BlockInv
  <1>5. NoOverdueSleeper /\ AddInv
    BY <1>3, IdleFacts DEF NoOverdueSleeper, AddInv
  <1>6. IdleInv /\ RunInv
    BY <1>3, IdleFacts DEF IdleInv, RunInv
  <1>7. CallInv /\ SliceInv /\ WaitInv
    BY <1>2, <1>3, IdleFacts DEF CallInv, SliceInv, WaitInv
  <1> QED
    BY <1>1, <1>4, <1>5, <1>6, <1>7 DEF IInv

\* Every call, tick and switch preserves the invariant.
LEMMA NextIInv == IInv /\ [Next]_vars => IInv'
  <1> SUFFICES ASSUME IInv, [Next]_vars PROVE IInv'
    OBVIOUS
  <1>1. CASE UNCHANGED vars
    <2> USE DEF IInv
    <2>1. QueueInv' /\ BlockInv' /\ AddInv'
      BY <1>1, ListsKept DEF vars
    <2>2. IdleInv' /\ RunInv' /\ WaitInv'
      BY <1>1, CurrentKept DEF vars
    <2>3. TypeOK'
      BY SMTT(120), <1>1 DEF vars, TypeOK
    <2>4. NoOverdueSleeper' /\ CallInv' /\ SliceInv'
      BY SMTT(120), <1>1 DEF vars, NoOverdueSleeper, CallInv, SliceInv
    <2> QED
      BY <2>1, <2>2, <2>3, <2>4
  <1>2. ASSUME NEW c \in Cores, Schedule(c) PROVE IInv'
    <2>1. PICK next \in Tasks \union {Idle(c)} : Switched(c, running[c], next)
      BY <1>2, DoScheduleFacts DEF Schedule
    <2>2. /\ mode[c] = "run" /\ call[running[c]] # "enqueue"
          /\ call' = [call EXCEPT ![running[c]] = "none"] /\ mode' = mode
      BY <1>2 DEF Schedule, Runs, Caller, Calls0
    <2> QED
      BY <2>1, <2>2, SwitchedStep
  <1>3. ASSUME NEW c \in Cores, TickReschedule(c) PROVE IInv'
    <2>1. PICK next \in Tasks \union {Idle(c)} : Switched(c, running[c], next)
      BY <1>3, DoScheduleFacts DEF TickReschedule
    <2>2. mode[c] = "resched" /\ mode' = [mode EXCEPT ![c] = "run"] /\ call' = call
      BY <1>3 DEF TickReschedule
    <2> QED
      BY <2>1, <2>2, SwitchedStep
  <1> QED
    BY <1>1, <1>2, <1>3, InitCurrentCoreStep, AddTaskStep, AddTaskEnqueueStep, SleepStep, BlockStep,
       WakeupStep, WakeupOneStep, TickStep, TickWakeStep, TickAccountStep
    DEF Next

\* The invariant holds in every state.
LEMMA Invariance == Spec => []IInv
  BY InitIInv, NextIInv, PTL DEF Spec

-----------------------------------------------------------------------------
(* The properties *)

\* The scheduling data keep their types.
THEOREM TypeCorrect == Spec => []TypeOK
  BY Invariance, PTL DEF IInv

\* No interleaving of AddTask, Schedule, Sleep, Block, Wakeup and TickUpdate loses a
\* kReady task or has it in two places of the ready queues.
THEOREM ReadyQueued == Spec => []ReadyIsQueuedOnce
  <1>1. IInv => ReadyIsQueuedOnce
    <2> SUFFICES ASSUME IInv PROVE ReadyIsQueuedOnce
      OBVIOUS
    <2>1. \A c \in Cores, p \in Queues : \A i \in DOMAIN queue[c][p] :
            queue[c][p][i] \in Tasks /\ In(queue, c, p, queue[c][p][i])
      BY SMTT(60) DEF IInv, TypeOK, In
    <2> QED
      BY SMTT(60), <2>1 DEF IInv, QueueInv, ReadyIsQueuedOnce, Once, In
  <1> QED
    BY <1>1, Invariance, PTL

\* running_task and kRunning agree, so that the assertions of Sleep and Block hold.
THEOREM RunningCurrent == Spec => []RunningIsCurrent
  <1>1. IInv => RunningIsCurrent
    <2> SUFFICES ASSUME IInv PROVE RunningIsCurrent
      OBVIOUS
    <2>1. \A t \in AllTasks : status[t] = "Running" => \E c \in Cores : running[c] = t
      BY SMTT(60), IdleFacts DEF IInv, IdleInv, RunInv
    <2>2. \A c \in Cores : booted[c] /\ call[running[c]] \in {"none", "enqueue"} =>
            status[running[c]] = "Running"
      BY SMTT(60) DEF IInv, IdleInv, RunInv
    <2> QED
      BY <2>1, <2>2 DEF IInv, RunInv, RunningIsCurrent
  <1> QED
    BY <1>1, Invariance, PTL

\* Block and Wakeup neither lose a kBlocked task nor list it twice.
THEOREM BlockedListed == Spec => []BlockedIsListedOnce
  <1>1. IInv => BlockedIsListedOnce
    <2> SUFFICES ASSUME IInv PROVE BlockedIsListedOnce
      OBVIOUS
    <2>1. \A c \in Cores, r \in Resources : \A i \in DOMAIN blocked[c][r] :
            blocked[c][r][i] \in Tasks /\ In(blocked, c, r, blocked[c][r][i])
      BY SMTT(60) DEF IInv, TypeOK, In
    <2> QED
      BY SMTT(60), <2>1 DEF IInv, BlockInv, BlockedIsListedOnce, Once, In
  <1> QED
    BY <1>1, Invariance, PTL

\* A kSleeping task is in one heap, and TickUpdate leaves no sleeper that is due.
THEOREM SleepersWoken == Spec => []NoOverdueSleeper
  BY Invariance, PTL DEF IInv

\* TickUpdate and Schedule never let task code run on a used-up time slice.
THEOREM SliceLasts == Spec => []SliceNotExhausted
  <1>1. IInv => SliceNotExhausted
    BY DEF IInv, SliceInv, SliceNotExhausted
  <1> QED
    BY <1>1, Invariance, PTL

\* Schedule passes over no task of a higher policy.
THEOREM HighestPicked == Spec => SchedulePicksHighest
  <1> DEFINE Picks == \A c \in Cores :
               running'[c] # running[c] =>
                 /\ running'[c] \notin Tasks => \A p \in Queues : queue'[c][p] = <<>>
                 /\ running'[c] \in Tasks /\ policy[running'[c]] = "normal" =>
                      queue'[c]["realtime"] = <<>>
  <1>1. IInv /\ [Next]_vars => [Picks]_vars
    <2> SUFFICES ASSUME IInv, Next PROVE Picks
      BY DEF vars
    <2>1. ASSUME NEW c \in Cores, DoSchedule(c) PROVE Picks
      <3>1. PICK next \in Tasks \union {Idle(c)} : Switched(c, running[c], next)
        BY <2>1, DoScheduleFacts
      <3>2. running' = [running EXCEPT ![c] = next] /\ running \in [Cores -> AllTasks]
        BY <3>1 DEF Switched, IInv, TypeOK
      <3>3. /\ next = Idle(c) => \A p \in Queues : queue'[c][p] = <<>>
            /\ next \in Tasks /\ policy[next] = "normal" => queue'[c]["realtime"] = <<>>
        BY <3>1 DEF Switched
      <3> QED
        BY <3>2, <3>3
    <2>2. ASSUME running' = running PROVE Picks
      BY <2>2
    <2>3. (\E c \in Cores : DoSchedule(c)) \/ running' = running
      <3>1. PICK c \in Cores :
              \/ InitCurrentCore(c) \/ Schedule(c) \/ WakeupOne(c) \/ Tick(c) \/ TickAccount(c)
              \/ TickReschedule(c)
              \/ \E t \in AllTasks :
                   \/ \E new \in Tasks, target \in Cores : AddTask(c, t, new, target)
                   \/ AddTaskEnqueue(c, t) \/ TickWake(c, t)
                   \/ \E ms \in Durations : Sleep(c, t, ms)
                   \/ \E r \in Resources, after \in {"sched", "sched_masked"} :
                        Block(c, t, r, after)
                   \/ \E r \in Resources : Wakeup(c, t, r)
        BY DEF Next
      <3>2. Schedule(c) \/ TickReschedule(c) => DoSchedule(c)
        BY DEF Schedule, TickReschedule
      <3>3. InitCurrentCore(c) \/ WakeupOne(c) \/ Tick(c) \/ TickAccount(c) => running' = running
        BY DEF InitCurrentCore, WakeupOne, Tick, TickAccount
      <3>4. \A t, new, target : AddTask(c, t, new, target) => running' = running
        BY DEF AddTask
      <3>5. \A t : AddTaskEnqueue(c, t) \/ TickWake(c, t) => running' = running
        BY DEF AddTaskEnqueue, TickWake
      <3>6. \A t, x : Sleep(c, t, x) \/ Wakeup(c, t, x) => running' = running
        BY DEF Sleep, Wakeup
      <3>7. \A t, r, after : Block(c, t, r, after) => running' = running
        BY DEF Block
      <3> QED
        BY <3>1, <3>2, <3>3, <3>4, <3>5, <3>6, <3>7
    <2> HIDE DEF Picks
    <2> QED
      BY <2>1, <2>2, <2>3
  <1> QED
    BY <1>1, Invariance, PTL DEF Spec, SchedulePicksHighest

-----------------------------------------------------------------------------
(* Mutex: whatever the scheduler does between two steps of Lock, TryLock and  *)
(* UnLock, and whether or not compare_exchange_weak fails spuriously.         *)

\* locked_ is set while a task owns the mutex, and owner_ names exactly the task in
\* its critical section: it is stored after the compare-exchange and cleared before
\* locked_ is.
OwnerInv ==
  /\ locked \in BOOLEAN
  /\ owner \in Tasks \union {NoTask}
  /\ mpc \in [Tasks -> MutexPCs]
  /\ \A t \in Tasks : Owns(t) => locked
  /\ \A t \in Tasks : mpc[t] = "in" <=> owner = t
  /\ MutexExclusion

-----------------------------------------------------------------------------
\* Every step of Mutex code, and every step of the task manager, keeps OwnerInv.
LEMMA OwnerStep == OwnerInv /\ [MNext]_mvars => OwnerInv'
  <1> SUFFICES ASSUME OwnerInv, [MNext]_mvars PROVE OwnerInv'
    OBVIOUS
  <1> USE ConstantsAssumption
      DEF OwnerInv, MutexExclusion, Owns, MutexPCs, MAt, MGoto, IsLockedByCurrentTask
  <1>1. CASE UNCHANGED mutexVars
    BY <1>1 DEF mutexVars
  <1>2. ASSUME NEW c \in Cores, NEW t \in Tasks, Lock(c, t) PROVE OwnerInv'
    BY <1>2 DEF Lock
  <1>3. ASSUME NEW c \in Cores, NEW t \in Tasks, LockCas(c, t) PROVE OwnerInv'
    <2>1. mpc[t] = "cas" /\ owner' = owner
      BY <1>3 DEF LockCas
    <2>2. CASE locked = FALSE /\ locked' = TRUE /\ MGoto(t, "own")
      BY <2>1, <2>2
    <2>3. CASE locked' = locked /\ MGoto(t, "block")
      BY <2>1, <2>3
    <2> QED
      BY <1>3, <2>2, <2>3 DEF LockCas
  <1>4. ASSUME NEW c \in Cores, NEW t \in Tasks, LockBlock(c, t) PROVE OwnerInv'
    BY <1>4 DEF LockBlock
  <1>5. ASSUME NEW c \in Cores, NEW t \in Tasks, LockOwn(c, t) PROVE OwnerInv'
    BY <1>5 DEF LockOwn
  <1>6. ASSUME NEW c \in Cores, NEW t \in Tasks, TryLock(c, t) PROVE OwnerInv'
    BY <1>6 DEF TryLock
  <1>7. ASSUME NEW c \in Cores, NEW t \in Tasks, UnLock(c, t) PROVE OwnerInv'
    BY <1>7 DEF UnLock
  <1>8. ASSUME NEW c \in Cores, NEW t \in Tasks, UnLockClear(c, t) PROVE OwnerInv'
    BY <1>8 DEF UnLockClear
  <1>9. ASSUME NEW c \in Cores, NEW t \in Tasks, UnLockWake(c, t) PROVE OwnerInv'
    BY <1>9 DEF UnLockWake
  <1> QED
    BY <1>1, <1>2, <1>3, <1>4, <1>5, <1>6, <1>7, <1>8, <1>9
    DEF MNext, MutexStep, OtherStep, mvars

\* OwnerInv holds in every state in which tasks use the mutex.
LEMMA OwnerInvariance == MSpec => []OwnerInv
  <1>1. MInit => OwnerInv
    BY ConstantsAssumption DEF MInit, OwnerInv, MutexExclusion, Owns, MutexPCs
  <1> QED
    BY <1>1, OwnerStep, PTL DEF MSpec

\* Lock and TryLock never give the mutex to a second task.
THEOREM MutexExclusionHolds == MSpec => []MutexExclusion
  BY OwnerInvariance, PTL DEF OwnerInv

\* UnLock always recognises the task in the critical section and nobody else, and
\* Lock refuses exactly that task.
THEOREM OwnerKnownHolds == MSpec => []OwnerKnown
  <1>1. OwnerInv => OwnerKnown
    BY DEF OwnerInv, OwnerKnown, IsLockedByCurrentTask, Owns
  <1> QED
    BY <1>1, OwnerInvariance, PTL
-----------------------------------------------------------------------------
(* The task manager under the mutex. *)

\* A step of Mutex code is a step of the task manager or leaves its state alone.
LEMMA MutexStepIsTaskStep == MNext => [Next]_vars
  <1> SUFFICES ASSUME MNext PROVE [Next]_vars
    OBVIOUS
  <1>1. ASSUME NEW c \in Cores, OtherStep(c) PROVE Next
    <2>1. Idle(c) \in AllTasks /\ Tasks \subseteq AllTasks
      BY DEF AllTasks, IdleTasks
    <2> QED
      BY <1>1, <2>1 DEF OtherStep, Next
  <1>2. ASSUME NEW c \in Cores, NEW t \in Tasks, MutexStep(c, t) PROVE [Next]_vars
    <2>1. t \in AllTasks
      BY DEF AllTasks
    <2>2. CASE LockBlock(c, t)
      BY <2>1, <2>2 DEF LockBlock, Next
    <2>3. CASE UnLockWake(c, t)
      BY <2>1, <2>3 DEF UnLockWake, Next
    <2> QED
      BY <1>2, <2>2, <2>3
      DEF MutexStep, Lock, LockCas, LockOwn, TryLock, UnLock, UnLockClear
  <1> QED
    BY <1>1, <1>2 DEF MNext

\* Tasks that use the mutex use the task manager as Spec says, so that everything
\* proved of the task manager holds while they do: Lock enters Block, and UnLock
\* Wakeup, as any other caller does (mutex.cpp Lock and UnLock).
THEOREM MutexRefinesTaskManager == MSpec => Spec
  <1>1. MInit => Init
    BY DEF MInit
  <1>2. [MNext]_mvars => [Next]_vars
    BY MutexStepIsTaskStep DEF mvars
  <1> QED
    BY <1>1, <1>2, PTL DEF MSpec, Spec

\* A task inside or outside Mutex code never runs on an exhausted time slice.
THEOREM MutexSlices == MSpec => []SliceNotExhausted
  BY MutexRefinesTaskManager, SliceLasts, PTL

\* The variables of the mutex and of the task manager under it have their types.
THEOREM MutexTypes == MSpec => []MTypeOK
  <1>1. TypeOK /\ OwnerInv => MTypeOK
    BY DEF OwnerInv, MTypeOK
  <1> QED
    BY <1>1, MutexRefinesTaskManager, TypeCorrect, OwnerInvariance, PTL
=============================================================================
