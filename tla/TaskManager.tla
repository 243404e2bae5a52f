---------------------------- MODULE TaskManager -----------------------------
(***************************************************************************)
(* The scheduling core of src/src/task: AddTask, Schedule, Sleep, Block,   *)
(* Wakeup and TickUpdate over the per-CPU scheduling data (CpuSchedData),  *)
(* with the FIFO, round-robin and idle schedulers that InitCurrentCore     *)
(* installs.                                                               *)
(*                                                                         *)
(* A region protected by the per-CPU lock is one step, or one step per     *)
(* iteration where it contains a loop: SpinLock.tla shows that such        *)
(* regions exclude each other and run with interrupts masked.  Between two *)
(* regions the timer interrupt may arrive unless the code has disabled it. *)
(* A region that ends in switch_to includes the switch; what can happen    *)
(* between the two is the subject of ContextSwitch.tla.                    *)
(***************************************************************************)
EXTENDS Integers, Sequences

CONSTANTS
  Cores,          \* cores of the machine
  BootCore,       \* the core that runs main; the others run main_smp
  Tasks,          \* task control blocks other than the idle tasks
  NoTask,
  Policies,       \* policies given to tasks: subset of {"realtime", "normal"}
  Resources,      \* resource identifiers tasks block on
  NoResource,     \* ResourceId{}
  TimeSlice,      \* time_slice_default
  TickHz,         \* NAILONG_KERNEL_TICK
  Durations,      \* the arguments of Sleep, in milliseconds
  WordSize        \* number of values of uint64_t

ASSUME ConstantsAssumption ==
  /\ BootCore \in Cores
  /\ Policies \subseteq {"realtime", "normal"}
  /\ NoTask \notin Tasks
  /\ NoResource \notin Resources
  /\ TimeSlice \in Nat \ {0}
  /\ TickHz \in Nat \ {0}
  /\ Durations \subseteq Nat
  /\ WordSize \in Nat \ {0}

\* The idle task of core c, created by InitCurrentCore.
Idle(c) == <<"idle", c>>
IdleTasks == {Idle(c) : c \in Cores}
AllTasks == Tasks \union IdleTasks

ASSUME IdleAssumption == IdleTasks \intersect (Tasks \union {NoTask}) = {}

Status == {"UnInit", "Ready", "Running", "Sleeping", "Blocked"}
Queues == {"realtime", "normal"}

VARIABLES
  online,      \* online[c]: InitCurrentCore has run on core c
  booted,      \* booted[c]: core c has left its boot code by its first Schedule
  status,      \* status[t]: TaskControlBlock::status
  policy,      \* policy[t]: TaskControlBlock::policy of a task
  running,     \* running[c]: PerCpu::running_task
  queue,       \* queue[c][p]: ready queue of the scheduler of policy p
  slice,       \* slice[t]: time_slice_remaining
  sleeping,    \* sleeping[c]: contents of the heap sleeping_tasks
  wake_tick,   \* wake_tick[t]: ticks until t is due: wake_tick - local_tick
  blocked,     \* blocked[c][r]: list of tasks blocked on r, <<>> if no entry
  blocked_on,  \* blocked_on[t]: the resource t waits for
  call,        \* call[t]: where t is inside a call of the task manager
  adding,      \* adding[t]: the task and core of an unfinished AddTask of t
  dropped,     \* tasks that AddTask put in no queue
  mode,        \* mode[c]: what core c executes
  waking,      \* waking[c]: resource of the Wakeup that core c executes
  need_preempt \* need_preempt[c]: local variable of TickUpdate

coreVars == <<online, booted>>
tickVars == <<mode, waking, need_preempt>>
addVars  == <<adding, dropped, policy>>
vars == <<online, booted, status, policy, running, queue, slice, sleeping,
          wake_tick, blocked, blocked_on, call, adding, dropped, mode, waking,
          need_preempt>>

\* call[t]: "none", outside the task manager or about to enter it; "enqueue", in
\* AddTask between its store of kReady and the target's lock; "sched" and
\* "sched_masked", past the locked region of Block or Sleep and before their
\* Schedule, with interrupts enabled or disabled.
Calls == {"none", "enqueue", "sched", "sched_masked"}
\* mode[c]: "run", task code; "wakeup", inside the loop of Wakeup; "tick", inside
\* the wake-up loop of TickUpdate; "resched", TickUpdate is about to Schedule.
\* Locked(c): the per-CPU lock of c is held between two steps.
Modes == {"run", "wakeup", "tick", "resched"}
Locked(c) == mode[c] \in {"wakeup", "tick"}

Init ==
  /\ online = [c \in Cores |-> c = BootCore]
  /\ booted = [c \in Cores |-> FALSE]
  /\ status = [t \in AllTasks |-> IF t \in Tasks THEN "UnInit" ELSE "Ready"]
  /\ policy \in [Tasks -> Policies]
  /\ running = [c \in Cores |-> Idle(c)]
  /\ queue = [c \in Cores |-> [p \in Queues |-> <<>>]]
  /\ slice = [t \in AllTasks |-> TimeSlice]
  /\ sleeping = [c \in Cores |-> {}]
  /\ wake_tick = [t \in Tasks |-> 0]
  /\ blocked = [c \in Cores |-> [r \in Resources |-> <<>>]]
  /\ blocked_on = [t \in Tasks |-> NoResource]
  /\ call = [t \in AllTasks |-> "none"]
  /\ adding = [t \in AllTasks |-> <<NoTask, BootCore>>]
  /\ dropped = {}
  /\ mode = [c \in Cores |-> "run"]
  /\ waking = [c \in Cores |-> NoResource]
  /\ need_preempt = [c \in Cores |-> FALSE]

-----------------------------------------------------------------------------
(* The schedulers of one core: q maps a policy to its ready queue. *)

\* FifoScheduler::Enqueue and RoundRobinScheduler::Enqueue
Enqueue(q, t) == [q EXCEPT ![policy[t]] = Append(@, t)]

\* RoundRobinScheduler::Enqueue also gives the task a fresh time slice.
SliceOnEnqueue(s, t) ==
  IF policy[t] = "normal" THEN [s EXCEPT ![t] = TimeSlice] ELSE s

\* FifoScheduler::Dequeue removes every occurrence, RoundRobinScheduler::Dequeue
\* the first one.
Dequeue(q, t) ==
  LET s == q[policy[t]]
      First == CHOOSE i \in DOMAIN s : s[i] = t /\ \A j \in 1..(i - 1) : s[j] # t
  IN  IF \A i \in DOMAIN s : s[i] # t THEN q
      ELSE [q EXCEPT ![policy[t]] =
              IF policy[t] = "realtime"
              THEN SelectSeq(s, LAMBDA u : u # t)
              ELSE SubSeq(s, 1, First - 1) \o SubSeq(s, First + 1, Len(s))]

\* The candidates of one scheduler in the loop of Schedule: PickNext pops the
\* head until a kReady task comes up.
ReadyPositions(s, st) == {i \in DOMAIN s : st[s[i]] = "Ready"}
FirstReady(s, st) ==
  CHOOSE i \in ReadyPositions(s, st) :
    \A j \in ReadyPositions(s, st) : i <= j
AfterPick(s, st) ==
  IF ReadyPositions(s, st) = {} THEN <<>>
  ELSE SubSeq(s, FirstReady(s, st) + 1, Len(s))

\* Mutant: the schedulers are asked in the opposite order.
PickNextReversed(c, q, st) ==
  IF ReadyPositions(q["normal"], st) # {}
  THEN q["normal"][FirstReady(q["normal"], st)]
  ELSE IF ReadyPositions(q["realtime"], st) # {}
  THEN q["realtime"][FirstReady(q["realtime"], st)]
  ELSE Idle(c)

\* Schedulers are asked in the order of their policies.  IdleScheduler keeps its
\* task when it is picked and is never empty.
PickNext(c, q, st) ==
  IF ReadyPositions(q["realtime"], st) # {}
  THEN q["realtime"][FirstReady(q["realtime"], st)]
  ELSE IF ReadyPositions(q["normal"], st) # {}
  THEN q["normal"][FirstReady(q["normal"], st)]
  ELSE Idle(c)

QueuesAfterPick(q, st) ==
  IF ReadyPositions(q["realtime"], st) # {}
  THEN [q EXCEPT !["realtime"] = AfterPick(@, st)]
  ELSE [p \in Queues |-> AfterPick(q[p], st)]

-----------------------------------------------------------------------------
(* Who executes on a core *)

\* Task t executes its own code on core c.  Before the first Schedule of the core
\* the boot code runs in the name of the idle task.
Runs(c, t) == online[c] /\ running[c] = t /\ mode[c] = "run"
Calls0(c, t) == Runs(c, t) /\ call[t] = "none"
\* Task code that may call the task manager: the idle thread never does.
Caller(c, t) == Calls0(c, t) /\ (t \in Tasks \/ ~booted[c])

-----------------------------------------------------------------------------
(* InitCurrentCore *)

InitCurrentCore(c) ==
  /\ ~online[c]
  /\ online' = [online EXCEPT ![c] = TRUE]
  /\ UNCHANGED <<booted, status, policy, running, queue, slice, sleeping,
                 wake_tick, blocked, blocked_on, call, adding, dropped,
                 mode, waking, need_preempt>>

-----------------------------------------------------------------------------
(* AddTask *)

\* Up to the choice of the target core: the first core of the affinity mask, or
\* the current core.
AddTask(c, t, new, target) ==
  /\ Caller(c, t)
  /\ status[new] = "UnInit"
  /\ status' = [status EXCEPT ![new] = "Ready"]
  /\ adding' = [adding EXCEPT ![t] = <<new, target>>]
  /\ call' = [call EXCEPT ![t] = "enqueue"]
  /\ UNCHANGED <<coreVars, running, queue, slice, sleeping, wake_tick, blocked,
                 blocked_on, policy, dropped, tickVars>>

\* Under the lock of the target core.  A core that is not initialised has no
\* scheduler, and the task is not enqueued.
AddTaskEnqueue(c, t) ==
  LET new == adding[t][1]  target == adding[t][2] IN
  /\ Runs(c, t)
  /\ call[t] = "enqueue"
  /\ ~Locked(target)
  /\ IF online[target]
     THEN /\ queue' = [queue EXCEPT ![target] = Enqueue(@, new)]
          /\ slice' = SliceOnEnqueue(slice, new)
          /\ UNCHANGED dropped
     ELSE /\ dropped' = dropped \union {new}
          /\ UNCHANGED <<queue, slice>>
  /\ adding' = [adding EXCEPT ![t] = <<NoTask, BootCore>>]
  /\ call' = [call EXCEPT ![t] = "none"]
  /\ UNCHANGED <<coreVars, status, running, sleeping, wake_tick, blocked,
                 blocked_on, policy, tickVars>>

-----------------------------------------------------------------------------
(* Schedule *)

\* Mutant: the current task is put back whatever its status.
PreemptedAlways(c) == TRUE

\* A current task that is still kRunning is preempted; one that has gone to sleep
\* or blocked is not.
Preempted(c) == status[running[c]] = "Running"

\* Mutant: the slice is not renewed.
SliceKept(s, t) == s

\* The chosen task gets a fresh time slice.
SliceOnSchedule(s, t) == [s EXCEPT ![t] = TimeSlice]

\* The effect of Schedule on core c; the caller's frame is left to the caller.
\* A running task is preempted: back to kReady and, unless it is the idle task,
\* to the tail of its queue.
DoSchedule(c) ==
  LET current == running[c]
      requeued == Preempted(c) /\ current # Idle(c)
      st == IF Preempted(c) THEN [status EXCEPT ![current] = "Ready"] ELSE status
      q == IF requeued THEN Enqueue(queue[c], current) ELSE queue[c]
      sl == IF requeued THEN SliceOnEnqueue(slice, current) ELSE slice
      next == PickNext(c, q, st)
  IN  /\ status' = [st EXCEPT ![next] = "Running"]
      /\ queue' = [queue EXCEPT ![c] = QueuesAfterPick(q, st)]
      /\ slice' = SliceOnSchedule(sl, next)
      /\ running' = [running EXCEPT ![c] = next]
      /\ booted' = [booted EXCEPT ![c] = TRUE]
      /\ UNCHANGED <<online, policy, sleeping, wake_tick, blocked, blocked_on,
                     adding, dropped, waking, need_preempt>>

\* Called by task code: yield, Sleep(0), the tail of Block and of Sleep, and the
\* end of main and main_smp.
Schedule(c) ==
  LET t == running[c] IN
  /\ Runs(c, t)
  /\ Caller(c, t) \/ call[t] \in {"sched", "sched_masked"}
  /\ call' = [call EXCEPT ![t] = "none"]
  /\ DoSchedule(c)
  /\ UNCHANGED mode

\* Called by TickUpdate after its locked region.
TickReschedule(c) ==
  /\ mode[c] = "resched"
  /\ mode' = [mode EXCEPT ![c] = "run"]
  /\ DoSchedule(c)
  /\ UNCHANGED call

-----------------------------------------------------------------------------
(* Sleep *)

\* Milliseconds to ticks, rounded up, in 64-bit arithmetic, and at least one.
SleepTicks(ms) ==
  LET ticks == ((ms * TickHz + 1000 - 1) % WordSize) \div 1000
  IN  IF ticks = 0 THEN 1 ELSE ticks

\* Mutant: DisableInterrupt is forgotten.
SleepOpen(c, t, ms) ==
  /\ Caller(c, t) /\ t \in Tasks
  /\ ms > 0
  /\ wake_tick' = [wake_tick EXCEPT ![t] = SleepTicks(ms)]
  /\ queue' = [queue EXCEPT ![c] = Dequeue(@, t)]
  /\ status' = [status EXCEPT ![t] = "Sleeping"]
  /\ sleeping' = [sleeping EXCEPT ![c] = @ \union {t}]
  /\ call' = [call EXCEPT ![t] = "sched"]
  /\ UNCHANGED <<coreVars, running, slice, blocked, blocked_on, addVars,
                 tickVars>>

\* Sleep with ms > 0, up to its Schedule: interrupts are disabled throughout.
Sleep(c, t, ms) ==
  /\ Caller(c, t) /\ t \in Tasks
  /\ ms > 0
  /\ wake_tick' = [wake_tick EXCEPT ![t] = SleepTicks(ms)]
  /\ queue' = [queue EXCEPT ![c] = Dequeue(@, t)]
  /\ status' = [status EXCEPT ![t] = "Sleeping"]
  /\ sleeping' = [sleeping EXCEPT ![c] = @ \union {t}]
  /\ call' = [call EXCEPT ![t] = "sched_masked"]
  /\ UNCHANGED <<coreVars, running, slice, blocked, blocked_on, addVars,
                 tickVars>>

-----------------------------------------------------------------------------
(* Block and Wakeup *)

\* Mutant: the status is not changed.
BlockRunning(c, t, r, after) ==
  /\ Caller(c, t) /\ t \in Tasks
  /\ blocked_on' = [blocked_on EXCEPT ![t] = r]
  /\ blocked' = [blocked EXCEPT ![c][r] = Append(@, t)]
  /\ call' = [call EXCEPT ![t] = after]
  /\ UNCHANGED <<coreVars, status, running, queue, slice, sleeping, wake_tick,
                 addVars, tickVars>>

\* Block up to its Schedule.  Callers that disabled interrupts (Mutex::Lock) keep
\* them disabled until the switch, the others run with interrupts enabled.
Block(c, t, r, after) ==
  /\ Caller(c, t) /\ t \in Tasks
  /\ status' = [status EXCEPT ![t] = "Blocked"]
  /\ blocked_on' = [blocked_on EXCEPT ![t] = r]
  /\ blocked' = [blocked EXCEPT ![c][r] = Append(@, t)]
  /\ call' = [call EXCEPT ![t] = after]
  /\ UNCHANGED <<coreVars, running, queue, slice, sleeping, wake_tick, addVars,
                 tickVars>>

\* Wakeup takes the lock of the current core and finds waiting tasks.
Wakeup(c, t, r) ==
  /\ Caller(c, t) /\ t \in Tasks
  /\ blocked[c][r] # <<>>
  /\ mode' = [mode EXCEPT ![c] = "wakeup"]
  /\ waking' = [waking EXCEPT ![c] = r]
  /\ UNCHANGED <<coreVars, status, running, queue, slice, sleeping, wake_tick,
                 blocked, blocked_on, call, addVars, need_preempt>>

\* One iteration of its loop; the last one erases the list and unlocks.
WakeupOne(c) ==
  LET r == waking[c]
      t == Head(blocked[c][r])
  IN
  /\ mode[c] = "wakeup"
  /\ blocked' = [blocked EXCEPT ![c][r] = Tail(@)]
  /\ status' = [status EXCEPT ![t] = "Ready"]
  /\ blocked_on' = [blocked_on EXCEPT ![t] = NoResource]
  /\ queue' = [queue EXCEPT ![c] = Enqueue(@, t)]
  /\ slice' = SliceOnEnqueue(slice, t)
  /\ IF Len(blocked[c][r]) = 1
     THEN /\ mode' = [mode EXCEPT ![c] = "run"]
          /\ waking' = [waking EXCEPT ![c] = NoResource]
     ELSE UNCHANGED <<mode, waking>>
  /\ UNCHANGED <<coreVars, running, sleeping, wake_tick, call, addVars,
                 need_preempt>>

-----------------------------------------------------------------------------
(* TickUpdate *)

\* Mutant: local_tick stands still.
AfterTickNone(c) == wake_tick

\* local_tick advances, and every sleeper of the core is one tick nearer.
AfterTick(c) ==
  [t \in Tasks |-> IF t \in sleeping[c] THEN wake_tick[t] - 1 ELSE wake_tick[t]]

\* The timer interrupt arrives.
Tick(c) ==
  /\ Runs(c, running[c])
  /\ call[running[c]] # "sched_masked"
  /\ wake_tick' = AfterTick(c)
  /\ mode' = [mode EXCEPT ![c] = "tick"]
  /\ need_preempt' = [need_preempt EXCEPT ![c] = FALSE]
  /\ UNCHANGED <<coreVars, status, running, queue, slice, sleeping, blocked,
                 blocked_on, call, addVars, waking>>

\* Mutant: the comparison of the heap is reversed.
TopLatest(c, t) ==
  /\ t \in sleeping[c]
  /\ \A u \in sleeping[c] : wake_tick[t] >= wake_tick[u]

\* sleeping_tasks.top(): a task with the smallest wake_tick.
Top(c, t) ==
  /\ t \in sleeping[c]
  /\ \A u \in sleeping[c] : wake_tick[t] <= wake_tick[u]

\* One iteration of the wake-up loop.
TickWake(c, t) ==
  /\ mode[c] = "tick"
  /\ Top(c, t)
  /\ wake_tick[t] <= 0
  /\ sleeping' = [sleeping EXCEPT ![c] = @ \ {t}]
  /\ status' = [status EXCEPT ![t] = "Ready"]
  /\ IF t # running[c]
     THEN /\ queue' = [queue EXCEPT ![c] = Enqueue(@, t)]
          /\ slice' = SliceOnEnqueue(slice, t)
     ELSE UNCHANGED <<queue, slice>>
  /\ need_preempt' = [need_preempt EXCEPT ![c] = TRUE]
  /\ UNCHANGED <<coreVars, running, wake_tick, blocked, blocked_on, call,
                 addVars, mode, waking>>

\* time_slice_remaining of the current task after this tick
SliceLeft(c) == IF slice[running[c]] > 0 THEN slice[running[c]] - 1 ELSE 0

\* Mutant: the end of the slice is not noticed.
MustPreemptNot(c) == need_preempt[c]

\* TickUpdate calls Schedule when a task woke up or the slice is used up.
MustPreempt(c) ==
  need_preempt[c] \/ (status[running[c]] = "Running" /\ SliceLeft(c) = 0)

\* The loop ends: account for the current task and decide.
TickAccount(c) ==
  LET current == running[c]
      counted == status[current] = "Running"
  IN
  /\ mode[c] = "tick"
  /\ sleeping[c] = {} \/ \E t \in sleeping[c] : Top(c, t) /\ wake_tick[t] > 0
  /\ slice' = IF counted THEN [slice EXCEPT ![current] = SliceLeft(c)] ELSE slice
  /\ mode' = [mode EXCEPT ![c] = IF MustPreempt(c) THEN "resched" ELSE "run"]
  /\ need_preempt' = [need_preempt EXCEPT ![c] = FALSE]
  /\ UNCHANGED <<coreVars, status, running, queue, sleeping, wake_tick, blocked,
                 blocked_on, call, addVars, waking>>

-----------------------------------------------------------------------------
Next ==
  \E c \in Cores :
    \/ InitCurrentCore(c)
    \/ \E t \in AllTasks :
         \/ \E new \in Tasks, target \in Cores : AddTask(c, t, new, target)
         \/ AddTaskEnqueue(c, t)
         \/ \E ms \in Durations : Sleep(c, t, ms)
         \/ \E r \in Resources, after \in {"sched", "sched_masked"} :
              Block(c, t, r, after)
         \/ \E r \in Resources : Wakeup(c, t, r)
         \/ TickWake(c, t)
    \/ Schedule(c)
    \/ WakeupOne(c)
    \/ Tick(c)
    \/ TickAccount(c)
    \/ TickReschedule(c)

Spec == Init /\ [][Next]_vars

\* The timer keeps interrupting: an interrupt that meets masked interrupts stays
\* pending and is taken when they are enabled, so a core that enables them again
\* and again takes it.  Handlers and locked regions run to their end, and a task
\* that is given the processor again and again finishes the call it is in.  Task
\* code itself may loop for ever.
Fairness ==
  \A c \in Cores :
    /\ SF_vars(booted[c] /\ Tick(c))
    /\ WF_vars(WakeupOne(c))
    /\ WF_vars(\E t \in Tasks : TickWake(c, t))
    /\ WF_vars(TickAccount(c))
    /\ WF_vars(TickReschedule(c))
    /\ SF_vars(~booted[c] /\ Schedule(c))
    /\ \A t \in AllTasks :
         /\ SF_vars(AddTaskEnqueue(c, t))
         /\ SF_vars(running[c] = t /\ call[t] # "none" /\ Schedule(c))

FairSpec == Spec /\ Fairness

-----------------------------------------------------------------------------
(* Properties *)

\* The variables have their types.
TypeOK ==
  /\ online \in [Cores -> BOOLEAN]
  /\ booted \in [Cores -> BOOLEAN]
  /\ status \in [AllTasks -> Status]
  /\ policy \in [Tasks -> Policies]
  /\ running \in [Cores -> AllTasks]
  /\ queue \in [Cores -> [Queues -> Seq(Tasks)]]
  /\ slice \in [AllTasks -> 0..TimeSlice]
  /\ sleeping \in [Cores -> SUBSET Tasks]
  /\ wake_tick \in [Tasks -> Int]
  /\ blocked \in [Cores -> [Resources -> Seq(Tasks)]]
  /\ blocked_on \in [Tasks -> Resources \union {NoResource}]
  /\ call \in [AllTasks -> Calls]
  /\ adding \in [AllTasks -> (Tasks \union {NoTask}) \X Cores]
  /\ dropped \subseteq Tasks
  /\ mode \in [Cores -> Modes]
  /\ waking \in [Cores -> Resources \union {NoResource}]
  /\ need_preempt \in [Cores -> BOOLEAN]

\* t is kReady and some AddTask has still to put it into a queue.
BeingAdded(t) == \E u \in AllTasks : adding[u][1] = t

\* A kReady task that AddTask has put in a queue is there exactly once, in the
\* queue of its policy, and every queued task is kReady: no interleaving of tick,
\* Block, Wakeup, Sleep and Schedule loses a runnable task or queues it twice.
ReadyIsQueuedOnce ==
  /\ \A c \in Cores, p \in Queues : \A i \in DOMAIN queue[c][p] :
       LET t == queue[c][p][i] IN
       status[t] = "Ready" /\ policy[t] = p /\ ~BeingAdded(t) /\ t \notin dropped
  /\ \A c, d \in Cores, p \in Queues :
       \A i \in DOMAIN queue[c][p], j \in DOMAIN queue[d][p] :
         queue[c][p][i] = queue[d][p][j] => c = d /\ i = j
  /\ \A t \in Tasks : status[t] = "Ready" /\ ~BeingAdded(t) /\ t \notin dropped =>
       \E c \in Cores : \E i \in DOMAIN queue[c][policy[t]] :
         queue[c][policy[t]][i] = t

\* A kRunning task is the running_task of exactly one core, and task code runs
\* only with its own task marked kRunning: the assertions at the head of Sleep
\* and Block never fail.
RunningIsCurrent ==
  /\ \A t \in AllTasks : status[t] = "Running" => \E c \in Cores : running[c] = t
  /\ \A c, d \in Cores : running[c] = running[d] => c = d
  /\ \A c \in Cores : booted[c] /\ call[running[c]] \in {"none", "enqueue"} =>
       status[running[c]] = "Running"

\* A kBlocked task is in exactly one waiting list, that of blocked_on, once, and
\* only blocked tasks are listed: the assertions in Wakeup never fail and no
\* Wakeup of the resource misses a waiter of its core.
BlockedIsListedOnce ==
  /\ \A c \in Cores, r \in Resources : \A i \in DOMAIN blocked[c][r] :
       LET t == blocked[c][r][i] IN status[t] = "Blocked" /\ blocked_on[t] = r
  /\ \A c, d \in Cores, r \in Resources :
       \A i \in DOMAIN blocked[c][r], j \in DOMAIN blocked[d][r] :
         blocked[c][r][i] = blocked[d][r][j] => c = d /\ i = j
  /\ \A t \in Tasks : status[t] = "Blocked" =>
       \E c \in Cores, r \in Resources : \E i \in DOMAIN blocked[c][r] :
         blocked[c][r][i] = t

\* A kSleeping task is in the heap of exactly one core, and outside TickUpdate no
\* sleeper is due: a tick wakes every task whose time has come.
NoOverdueSleeper ==
  /\ \A t \in Tasks : status[t] = "Sleeping" <=>
       \E c \in Cores : t \in sleeping[c]
  /\ \A c, d \in Cores : c # d => sleeping[c] \intersect sleeping[d] = {}
  /\ \A c \in Cores : mode[c] # "tick" =>
       \A t \in sleeping[c] : wake_tick[t] > 0

\* Task code never runs on an exhausted time slice: the tick that uses up the
\* slice preempts the task, and every path to the processor renews it.
SliceNotExhausted ==
  \A c \in Cores : booted[c] /\ mode[c] = "run" /\ status[running[c]] = "Running"
                     => slice[running[c]] > 0

\* Schedule never passes over a task of a higher policy: a normal task runs only
\* when no real-time task was ready, the idle task only when nothing was.
SchedulePicksHighest ==
  [][\A c \in Cores :
       running'[c] # running[c] =>
         /\ running'[c] \notin Tasks =>
              \A p \in Queues : queue'[c][p] = <<>>
         /\ running'[c] \in Tasks /\ policy[running'[c]] = "normal" =>
              queue'[c]["realtime"] = <<>>]_vars

\* A sleeping task wakes up.
SleeperWakes ==
  \A t \in Tasks : status[t] = "Sleeping" ~> status[t] = "Ready"

\* With round-robin tasks only, every ready task gets the processor: nobody
\* starves, whether the others yield, loop, sleep or block.
ReadyRuns ==
  \A t \in Tasks : status[t] = "Ready" ~> status[t] = "Running"
=============================================================================
