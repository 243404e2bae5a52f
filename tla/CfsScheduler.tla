---------------------------- MODULE CfsScheduler ----------------------------
(***************************************************************************)
(* src/src/task/cfs_scheduler.cpp, driven as TaskManager::Schedule,        *)
(* TickUpdate, Block and Wakeup drive a scheduler: a task that gives up    *)
(* the core is enqueued, unless it blocks, and the next one is picked; a   *)
(* tick may ask for a switch.  The heap is a set; which of several minimal *)
(* tasks is on top is left open.                                           *)
(***************************************************************************)
EXTENDS Naturals, FiniteSetsExt

CONSTANTS
  CfsTasks,
  Weights,          \* weights a task may be created with; 0 is the default
  kDefaultWeight,
  kMinGranularity,
  MaxVruntime       \* bound on vruntime

ASSUME CfsAssumption ==
  /\ Weights \subseteq Nat
  /\ kDefaultWeight \in Nat \ {0}
  /\ kMinGranularity \in Nat

VARIABLES
  cfs_weight, cfs_vruntime,  \* sched_data.cfs
  cfs_queue,                 \* ready_queue_
  cfs_min,                   \* min_vruntime_
  cfs_current,               \* the running task, or {}
  cfs_new                    \* tasks never enqueued

cfs_vars == <<cfs_weight, cfs_vruntime, cfs_queue, cfs_min, cfs_current, cfs_new>>

CfsInit ==
  /\ cfs_weight \in [CfsTasks -> Weights]
  /\ cfs_vruntime = [t \in CfsTasks |-> 0]
  /\ cfs_queue = {} /\ cfs_min = 0 /\ cfs_current = {}
  /\ cfs_new = CfsTasks

Delta(w) == (kDefaultWeight * 1000) \div w

\* Mutant: a maximum heap.
TopLast(q, vruntime) == {t \in q : \A u \in q : vruntime[t] >= vruntime[u]}

\* The tasks VruntimeCompare may put on top of the heap q.
Top(q, vruntime) == {t \in q : \A u \in q : vruntime[t] <= vruntime[u]}

\* The fields of a task after Enqueue.
EnqueuedVruntime(t) == IF cfs_vruntime[t] = 0 THEN cfs_min ELSE cfs_vruntime[t]
EnqueuedWeight(t) == IF cfs_weight[t] = 0 THEN kDefaultWeight ELSE cfs_weight[t]

\* Enqueue of a new task, or of a task that Wakeup found blocked.
Enqueue(t) ==
  /\ t \notin cfs_queue \union cfs_current
  /\ cfs_queue' = cfs_queue \union {t}
  /\ cfs_vruntime' = [cfs_vruntime EXCEPT ![t] = EnqueuedVruntime(t)]
  /\ cfs_weight' = [cfs_weight EXCEPT ![t] = EnqueuedWeight(t)]
  /\ cfs_new' = cfs_new \ {t}
  /\ UNCHANGED <<cfs_min, cfs_current>>

\* PickNext from heap q.
PickNext(q, vruntime) ==
  IF q = {}
    THEN cfs_current' = {} /\ cfs_queue' = {} /\ UNCHANGED cfs_min
    ELSE \E next \in Top(q, vruntime) :
           /\ cfs_current' = {next}
           /\ cfs_queue' = q \ {next}
           /\ cfs_min' = Min({vruntime[t] : t \in IF q = {next} THEN q ELSE q \ {next}})

\* Schedule: the running task yields or has been preempted.  Its vruntime is only
\* reset to min_vruntime_ when it has never been charged.
Schedule ==
  LET vruntime == [t \in CfsTasks |-> IF t \in cfs_current THEN EnqueuedVruntime(t) ELSE cfs_vruntime[t]]
  IN  /\ cfs_queue # {}
      /\ cfs_vruntime' = vruntime
      /\ PickNext(cfs_queue \union cfs_current, vruntime)
      /\ UNCHANGED <<cfs_weight, cfs_new>>

\* Schedule after the running task has blocked.
Block ==
  /\ cfs_current # {}
  /\ PickNext(cfs_queue, cfs_vruntime)
  /\ UNCHANGED <<cfs_weight, cfs_vruntime, cfs_new>>

\* OnTick; when it asks for it, the switch.
OnTick ==
  \E c \in cfs_current :
    LET vruntime == [cfs_vruntime EXCEPT ![c] = @ + Delta(cfs_weight[c])]
    IN  /\ vruntime[c] <= MaxVruntime
        /\ cfs_vruntime' = vruntime
        /\ IF \E next \in Top(cfs_queue, vruntime) : vruntime[next] + kMinGranularity < vruntime[c]
             THEN PickNext(cfs_queue \union {c}, vruntime)
             ELSE UNCHANGED <<cfs_queue, cfs_min, cfs_current>>
        /\ UNCHANGED <<cfs_weight, cfs_new>>

\* Dequeue takes a task out of the middle of the heap.
Dequeue(t) ==
  /\ t \in cfs_queue
  /\ cfs_queue' = cfs_queue \ {t}
  /\ UNCHANGED <<cfs_weight, cfs_vruntime, cfs_min, cfs_current, cfs_new>>

CfsNext == OnTick \/ Schedule \/ Block \/ \E t \in CfsTasks : Enqueue(t) \/ Dequeue(t)

CfsSpec == CfsInit /\ [][CfsNext]_cfs_vars

-----------------------------------------------------------------------------
Runnable == cfs_queue \union cfs_current

\* The running task is ahead of no runnable one by more than the granularity, a
\* queued one by no more than the tick that cost it the core.
Spread ==
  \A t, u \in Runnable :
    cfs_vruntime[t] <= cfs_vruntime[u] + kMinGranularity
                         + IF t \in cfs_current THEN 0 ELSE Delta(cfs_weight[t])

\* Enqueue has taken a task that was never charged for a new one.
Restarted(t) == cfs_vruntime[t] = 0 /\ cfs_vruntime'[t] = cfs_min /\ cfs_min > 0

\* Ticks and switches keep runnable tasks together: the fairness of OnTick and
\* PickNext.  Only a task that joins can break it, with the min_vruntime_ that a
\* lone runner has left behind or with the vruntime it went to sleep with, or one
\* that yields before its first tick and so starts again at min_vruntime_.
SpreadKept ==
  [][Spread /\ Runnable' \subseteq Runnable /\ (\A t \in Runnable : ~Restarted(t))
       => Spread']_cfs_vars
=============================================================================
