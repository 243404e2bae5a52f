-------------------------- MODULE TaskManagerFacts --------------------------
(***************************************************************************)
(* The inductive invariant IInv of TaskManager, for any number of cores,   *)
(* tasks and resources; what its lists, PickNext and Schedule do to it;    *)
(* and that the boot of a core, AddTask and Sleep preserve it.             *)
(***************************************************************************)
EXTENDS TaskManager, TLAPS

\* t is in the list of key k (a policy or a resource) of core c.
In(q, c, k, t) == \E i \in DOMAIN q[c][k] : q[c][k][i] = t

\* No list of key k, of whatever core, holds a task twice.
Once(q, K) ==
  \A c, d \in Cores, k \in K : \A i \in DOMAIN q[c][k], j \in DOMAIN q[d][k] :
    q[c][k][i] = q[d][k][j] => c = d /\ i = j

\* The ready queues hold exactly the kReady tasks that AddTask has placed.
QueueInv ==
  /\ Once(queue, Queues)
  /\ \A c \in Cores, p \in Queues, t \in Tasks : In(queue, c, p, t) =>
       status[t] = "Ready" /\ policy[t] = p /\ ~BeingAdded(t) /\ t \notin dropped
  /\ \A t \in Tasks : status[t] = "Ready" /\ ~BeingAdded(t) /\ t \notin dropped =>
       \E c \in Cores : In(queue, c, policy[t], t)

\* The waiting lists hold exactly the kBlocked tasks.
BlockInv ==
  /\ Once(blocked, Resources)
  /\ \A c \in Cores, r \in Resources, t \in Tasks : In(blocked, c, r, t) =>
       status[t] = "Blocked" /\ blocked_on[t] = r
  /\ \A t \in Tasks : status[t] = "Blocked" =>
       \E c \in Cores, r \in Resources : In(blocked, c, r, t)

\* A task that AddTask has marked and not yet placed is kReady, and one AddTask at a
\* time has it.
AddInv ==
  /\ \A u \in AllTasks : adding[u][1] # NoTask =>
       status[adding[u][1]] = "Ready" /\ adding[u][1] \notin dropped
  /\ \A u \in AllTasks : call[u] = "enqueue" <=> adding[u][1] # NoTask
  /\ \A u, w \in AllTasks : adding[u][1] # NoTask /\ adding[u][1] = adding[w][1] => u = w
  /\ \A t \in dropped : status[t] = "Ready"

\* The idle task of a core runs on no other core and never sleeps or blocks.
IdleInv ==
  \A c \in Cores :
    /\ running[c] \in Tasks \union {Idle(c)}
    /\ status[Idle(c)] = "Running" => running[c] = Idle(c) /\ booted[c]
    /\ status[Idle(c)] \in {"Ready", "Running"}
    /\ call[Idle(c)] \in {"none", "enqueue"}
    /\ booted[c] /\ running[c] = Idle(c) => status[Idle(c)] = "Running"
    /\ ~booted[c] => running[c] = Idle(c)

\* The current task of a core is current on no other core and is not kReady; it is
\* kRunning unless it has blocked or gone to sleep and not yet called Schedule.
RunInv ==
  /\ \A c, d \in Cores : running[c] = running[d] => c = d
  /\ \A t \in Tasks : status[t] = "Running" => \E c \in Cores : running[c] = t
  /\ \A c \in Cores : running[c] \in Tasks =>
       /\ status[running[c]] \in {"Running", "Sleeping", "Blocked"}
       /\ call[running[c]] \in {"none", "enqueue"} => status[running[c]] = "Running"

\* A task between its locked region and its Schedule with interrupts disabled is not
\* interrupted, and Wakeup is called by a task that is in no other call.
CallInv ==
  /\ \A t \in Tasks : call[t] = "sched_masked" =>
       \E c \in Cores : running[c] = t /\ mode[c] = "run"
  /\ \A c \in Cores : mode[c] = "wakeup" =>
       /\ call[running[c]] = "none"
       /\ waking[c] \in Resources /\ blocked[c][waking[c]] # <<>>

\* A current task that is in a heap or a waiting list is in those of its own core,
\* whose Schedule it is about to call: nobody can wake it before it has switched.
WaitInv ==
  \A c, d \in Cores, t \in Tasks : running[d] = t =>
    /\ t \in sleeping[c] => c = d /\ call[t] = "sched_masked"
    /\ \A r \in Resources : In(blocked, c, r, t) =>
         c = d /\ call[t] \in {"sched", "sched_masked"}

\* SliceNotExhausted, also inside Wakeup.
SliceInv ==
  \A c \in Cores : booted[c] /\ mode[c] \in {"run", "wakeup"} /\ status[running[c]] = "Running"
                     => slice[running[c]] > 0

IInv ==
  /\ TypeOK /\ QueueInv /\ BlockInv /\ NoOverdueSleeper /\ AddInv /\ IdleInv /\ RunInv
  /\ CallInv /\ WaitInv /\ SliceInv

-----------------------------------------------------------------------------
(* Lists *)

Lists(K) == [Cores -> [K -> Seq(Tasks)]]

\* q2 is q after a push_back of t to the list of c and k, and after a pop_front of it.
Appended(q, q2, K, c, k, t) ==
  /\ q2 \in Lists(K)
  /\ Once(q2, K)
  /\ \A d \in Cores, m \in K, u \in Tasks :
       In(q2, d, m, u) <=> In(q, d, m, u) \/ (d = c /\ m = k /\ u = t)
  /\ q2[c][k] # <<>>
  /\ \A d \in Cores, m \in K : d # c \/ m # k => q2[d][m] = q[d][m]

Removed(q, q2, K, c, k, t) ==
  /\ q2 \in Lists(K)
  /\ Once(q2, K)
  /\ t \in Tasks /\ In(q, c, k, t)
  /\ \A d \in Cores, m \in K, u \in Tasks :
       In(q2, d, m, u) <=> In(q, d, m, u) /\ ~(d = c /\ m = k /\ u = t)
  /\ q2[c][k] = <<>> <=> Len(q[c][k]) = 1
  /\ \A d \in Cores, m \in K : d # c \/ m # k => q2[d][m] = q[d][m]

\* Most leaves are first-order and set reasoning and go to Zenon; the others name SMT.
USE ZenonT(60)

\* push_back of a task that no list of its key holds.
LEMMA AppendFacts ==
  ASSUME NEW K, NEW q \in Lists(K), Once(q, K),
         NEW c \in Cores, NEW k \in K, NEW t \in Tasks, \A d \in Cores : ~In(q, d, k, t),
         NEW q2, q2 = [q EXCEPT ![c][k] = Append(@, t)]
  PROVE  Appended(q, q2, K, c, k, t)
  <1> USE DEF Lists
  <1> DEFINE s == q[c][k]
  <1>1. s \in Seq(Tasks) /\ Append(s, t) \in Seq(Tasks)
    BY SMTT(120)
  <1>2. /\ DOMAIN s = 1 .. Len(s) /\ Len(s) \in Nat
        /\ DOMAIN Append(s, t) = 1 .. Len(s) + 1
        /\ \A i \in 1 .. Len(s) : Append(s, t)[i] = s[i]
        /\ Append(s, t)[Len(s) + 1] = t
    BY SMTT(120), <1>1
  <1>3. q2 \in Lists(K)
    BY <1>1
  <1>4. q2[c][k] = Append(s, t)
    OBVIOUS
  <1>5. \A d \in Cores, m \in K : d # c \/ m # k => q2[d][m] = q[d][m]
    OBVIOUS
  <1> HIDE DEF s
  <1>6. ASSUME NEW d \in Cores, NEW m \in K, NEW u \in Tasks
        PROVE  In(q2, d, m, u) <=> In(q, d, m, u) \/ (d = c /\ m = k /\ u = t)
    <2>1. CASE d = c /\ m = k
      <3>1. In(q2, d, m, u) <=> \E i \in 1 .. Len(s) + 1 : Append(s, t)[i] = u
        BY <1>2, <1>4, <2>1 DEF In
      <3>2. In(q, d, m, u) <=> \E i \in 1 .. Len(s) : s[i] = u
        BY <1>2, <2>1 DEF In, s
      <3>3. \A i \in 1 .. Len(s) + 1 : i \in 1 .. Len(s) \/ i = Len(s) + 1
        BY SMTT(120), <1>2
      <3>4. 1 .. Len(s) \subseteq 1 .. Len(s) + 1 /\ Len(s) + 1 \in 1 .. Len(s) + 1
        BY SMTT(120), <1>2
      <3> QED
        BY <1>2, <2>1, <3>1, <3>2, <3>3, <3>4
    <2>2. CASE d # c \/ m # k
      BY <1>5, <2>2 DEF In
    <2> QED
      BY <2>1, <2>2
  <1>7. ASSUME NEW d \in Cores, NEW e \in Cores, NEW m \in K,
               NEW i \in DOMAIN q2[d][m], NEW j \in DOMAIN q2[e][m], q2[d][m][i] = q2[e][m][j]
        PROVE  d = e /\ i = j
    <2>1. CASE m # k \/ (d # c /\ e # c)
      BY SMTT(120), <1>5, <1>7, <2>1 DEF Once
    <2>2. CASE m = k /\ d = c /\ e = c
      BY SMTT(120), <1>2, <1>4, <1>7, <2>2 DEF Once, In, s
    <2>3. CASE m = k /\ d = c /\ e # c
      BY SMTT(120), <1>2, <1>4, <1>5, <1>7, <2>3 DEF Once, In, s
    <2>4. CASE m = k /\ d # c /\ e = c
      BY SMTT(120), <1>2, <1>4, <1>5, <1>7, <2>4 DEF Once, In, s
    <2> QED
      BY <2>1, <2>2, <2>3, <2>4
  <1>8. q2[c][k] # <<>>
    BY SMTT(120), <1>1, <1>4
  <1> QED
    BY <1>3, <1>5, <1>6, <1>7, <1>8 DEF Once, Appended

\* pop_front.
LEMMA TailFacts ==
  ASSUME NEW K, NEW q \in Lists(K), Once(q, K),
         NEW c \in Cores, NEW k \in K, q[c][k] # <<>>,
         NEW q2, q2 = [q EXCEPT ![c][k] = Tail(@)]
  PROVE  Removed(q, q2, K, c, k, Head(q[c][k]))
  <1> USE DEF Lists
  <1> DEFINE s == q[c][k]
  <1>1. s \in Seq(Tasks) /\ Tail(s) \in Seq(Tasks)
    BY SMTT(120)
  <1>2. /\ DOMAIN s = 1 .. Len(s) /\ Len(s) \in Nat /\ Len(s) > 0
        /\ DOMAIN Tail(s) = 1 .. Len(s) - 1
        /\ \A i \in 1 .. Len(s) - 1 : Tail(s)[i] = s[i + 1]
        /\ Head(s) = s[1] /\ s[1] \in Tasks
        /\ Tail(s) = <<>> <=> Len(s) = 1
    <2>1. DOMAIN s = 1 .. Len(s) /\ Len(s) \in Nat /\ Len(s) > 0
      BY SMTT(120), <1>1
    <2>2. Len(Tail(s)) = Len(s) - 1 /\ DOMAIN Tail(s) = 1 .. Len(s) - 1
      BY SMTT(120), <1>1, <2>1
    <2>3. \A i \in 1 .. Len(s) - 1 : Tail(s)[i] = s[i + 1]
      BY SMTT(120), <1>1, <2>1
    <2>4. Head(s) = s[1] /\ s[1] \in Tasks
      BY SMTT(120), <1>1, <2>1
    <2>5. Tail(s) = <<>> <=> Len(s) = 1
      <3>1. \A x \in Seq(Tasks) : x = <<>> <=> Len(x) = 0
        BY SMTT(120)
      <3>2. Tail(s) = <<>> <=> Len(Tail(s)) = 0
        BY ONLY <1>1, <3>1, Zenon
      <3>3. Len(Tail(s)) = 0 <=> Len(s) = 1
        BY SMTT(120), <2>1, <2>2
      <3> QED
        BY <3>2, <3>3
    <2> QED
      BY <2>1, <2>2, <2>3, <2>4, <2>5
  <1>3. q2 \in Lists(K)
    BY <1>1
  <1>4. q2[c][k] = Tail(s)
    OBVIOUS
  <1>5. \A d \in Cores, m \in K : d # c \/ m # k => q2[d][m] = q[d][m]
    OBVIOUS
  <1> HIDE DEF s
  <1>6. \A i \in 1 .. Len(s) : s[i] = Head(s) => i = 1
    BY SMTT(120), <1>2 DEF Once, s
  <1>7. ASSUME NEW d \in Cores, NEW m \in K, NEW u \in Tasks
        PROVE  In(q2, d, m, u) <=> In(q, d, m, u) /\ ~(d = c /\ m = k /\ u = Head(s))
    <2>1. CASE d = c /\ m = k
      <3>1. ASSUME NEW i \in 1 .. Len(s) - 1, Tail(s)[i] = u
            PROVE  In(q, d, m, u) /\ u # Head(s)
        <4>1. i + 1 \in 1 .. Len(s) /\ s[i + 1] = u /\ i + 1 # 1
          BY SMTT(120), <1>2, <3>1
        <4> QED
          BY <1>2, <1>6, <2>1, <4>1 DEF In, s
      <3>2. ASSUME NEW i \in 1 .. Len(s), s[i] = u, u # Head(s)
            PROVE  \E j \in 1 .. Len(s) - 1 : Tail(s)[j] = u
        <4>1. i - 1 \in 1 .. Len(s) - 1 /\ Tail(s)[i - 1] = s[i]
          BY SMTT(120), <1>2, <3>2
        <4> QED
          BY <3>2, <4>1
      <3> QED
        BY <1>2, <1>4, <2>1, <3>1, <3>2 DEF In, s
    <2>2. CASE d # c \/ m # k
      BY <1>5, <2>2 DEF In
    <2> QED
      BY <2>1, <2>2
  <1>8. ASSUME NEW d \in Cores, NEW e \in Cores, NEW m \in K,
               NEW i \in DOMAIN q2[d][m], NEW j \in DOMAIN q2[e][m], q2[d][m][i] = q2[e][m][j]
        PROVE  d = e /\ i = j
    <2>1. CASE m # k \/ (d # c /\ e # c)
      BY SMTT(120), <1>5, <1>8, <2>1 DEF Once
    <2>2. CASE m = k /\ d = c /\ e = c
      <3>1. /\ i \in 1 .. Len(s) - 1 /\ j \in 1 .. Len(s) - 1
            /\ s[i + 1] = s[j + 1] /\ i + 1 \in 1 .. Len(s) /\ j + 1 \in 1 .. Len(s)
        BY SMTT(120), <1>2, <1>4, <1>8, <2>2
      <3>2. i + 1 = j + 1
        BY SMTT(120), <1>2, <3>1 DEF Once, s
      <3> QED
        BY SMTT(120), <2>2, <3>1, <3>2
    <2>3. CASE m = k /\ d = c /\ e # c
      <3>1. i + 1 \in 1 .. Len(s) /\ s[i + 1] = q[e][k][j] /\ j \in DOMAIN q[e][k]
        BY SMTT(120), <1>2, <1>4, <1>5, <1>8, <2>3
      <3> QED
        BY SMTT(120), <1>2, <2>3, <3>1 DEF Once, s
    <2>4. CASE m = k /\ d # c /\ e = c
      <3>1. j + 1 \in 1 .. Len(s) /\ s[j + 1] = q[d][k][i] /\ i \in DOMAIN q[d][k]
        BY SMTT(120), <1>2, <1>4, <1>5, <1>8, <2>4
      <3> QED
        BY SMTT(120), <1>2, <2>4, <3>1 DEF Once, s
    <2> QED
      BY <2>1, <2>2, <2>3, <2>4
  <1>9. In(q, c, k, Head(s))
    BY SMTT(120), <1>2 DEF In, s
  <1> QED
    BY <1>2, <1>3, <1>4, <1>5, <1>7, <1>8, <1>9 DEF Once, Removed, s

\* PickNext on a queue of kReady tasks takes its head.
LEMMA PickList ==
  ASSUME NEW s \in Seq(Tasks), NEW st, \A i \in DOMAIN s : st[s[i]] = "Ready"
  PROVE  /\ s = <<>> => ReadyPositions(s, st) = {} /\ AfterPick(s, st) = <<>>
         /\ s # <<>> => /\ ReadyPositions(s, st) # {}
                        /\ s[FirstReady(s, st)] = Head(s)
                        /\ AfterPick(s, st) = Tail(s)
  <1>1. ReadyPositions(s, st) = 1 .. Len(s)
    BY SMTT(120) DEF ReadyPositions
  <1>2. CASE s = <<>>
    BY SMTT(120), <1>1, <1>2 DEF AfterPick
  <1>3. CASE s # <<>>
    <2>1. Len(s) \in Nat /\ Len(s) > 0 /\ 1 \in 1 .. Len(s)
      BY SMTT(120), <1>3
    <2>2. FirstReady(s, st) \in 1 .. Len(s) /\ \A j \in 1 .. Len(s) : FirstReady(s, st) <= j
      <3>1. \A j \in 1 .. Len(s) : 1 <= j
        BY SMTT(120), <2>1
      <3> QED
        BY <1>1, <2>1, <3>1 DEF FirstReady
    <2>3. FirstReady(s, st) = 1
      BY SMTT(120), <2>1, <2>2
    <2>4. Tail(s) = SubSeq(s, 2, Len(s))
      BY SMTT(120), <1>3, <2>1
    <2> QED
      BY SMTT(120), <1>1, <1>3, <2>1, <2>3, <2>4 DEF AfterPick
  <1> QED
    BY <1>2, <1>3

\* Schedule takes the head of the first queue that is not empty, or the idle task.
LEMMA PickFacts ==
  ASSUME NEW c \in Cores, NEW q \in [Queues -> Seq(Tasks)], NEW st,
         \A p \in Queues : \A i \in DOMAIN q[p] : st[q[p][i]] = "Ready"
  PROVE  \/ \E p \in Queues :
              /\ q[p] # <<>> /\ (p = "normal" => q["realtime"] = <<>>)
              /\ PickNext(c, q, st) = Head(q[p])
              /\ QueuesAfterPick(q, st) = [q EXCEPT ![p] = Tail(@)]
         \/ /\ \A p \in Queues : q[p] = <<>>
            /\ PickNext(c, q, st) = Idle(c)
            /\ QueuesAfterPick(q, st) = q
  <1> USE DEF Queues
  <1>1. \A p \in Queues :
          /\ q[p] = <<>> => ReadyPositions(q[p], st) = {} /\ AfterPick(q[p], st) = <<>>
          /\ q[p] # <<>> => /\ ReadyPositions(q[p], st) # {}
                            /\ q[p][FirstReady(q[p], st)] = Head(q[p])
                            /\ AfterPick(q[p], st) = Tail(q[p])
    BY PickList
  <1>2. CASE q["realtime"] # <<>>
    <2>1. PickNext(c, q, st) = Head(q["realtime"])
      BY <1>1, <1>2 DEF PickNext
    <2>2. QueuesAfterPick(q, st) = [q EXCEPT !["realtime"] = Tail(@)]
      BY <1>1, <1>2 DEF QueuesAfterPick
    <2> QED
      BY <1>2, <2>1, <2>2
  <1>3. CASE q["realtime"] = <<>> /\ q["normal"] # <<>>
    <2>1. PickNext(c, q, st) = Head(q["normal"])
      BY <1>1, <1>3 DEF PickNext
    <2>2. QueuesAfterPick(q, st) = [q EXCEPT !["normal"] = Tail(@)]
      BY <1>1, <1>3 DEF QueuesAfterPick
    <2> QED
      BY <1>3, <2>1, <2>2
  <1>4. CASE q["realtime"] = <<>> /\ q["normal"] = <<>>
    <2>1. PickNext(c, q, st) = Idle(c)
      BY <1>1, <1>4 DEF PickNext
    <2>2. QueuesAfterPick(q, st) = q
      BY <1>1, <1>4 DEF QueuesAfterPick
    <2> QED
      BY <1>4, <2>1, <2>2
  <1> QED
    BY <1>2, <1>3, <1>4

\* Enqueue of a task that is in no ready queue.
LEMMA EnqueueFacts ==
  ASSUME TypeOK, Once(queue, Queues), NEW c \in Cores, NEW t \in Tasks,
         \A d \in Cores : ~In(queue, d, policy[t], t),
         NEW q2, q2 = [queue EXCEPT ![c] = Enqueue(@, t)]
  PROVE  policy[t] \in Queues /\ Appended(queue, q2, Queues, c, policy[t], t)
  <1>1. policy[t] \in Queues /\ queue \in Lists(Queues)
    BY ConstantsAssumption DEF TypeOK, Queues, Lists
  <1>2. q2 = [queue EXCEPT ![c][policy[t]] = Append(@, t)]
    BY <1>1 DEF Enqueue
  <1> QED
    BY <1>1, <1>2, AppendFacts

\* Idle tasks are distinct from each other and from all other tasks.
LEMMA IdleFacts ==
  /\ \A c \in Cores : Idle(c) \in AllTasks /\ Idle(c) \notin Tasks /\ Idle(c) # NoTask
  /\ \A c, d \in Cores : Idle(c) = Idle(d) => c = d
  /\ Tasks \subseteq AllTasks /\ NoTask \notin Tasks
  /\ \A u \in AllTasks : u \in Tasks \/ \E c \in Cores : u = Idle(c)
  BY ConstantsAssumption, IdleAssumption DEF AllTasks, IdleTasks, Idle

\* The effect of Schedule on core c: it gives up current, if current is still kRunning,
\* and takes next.
Switched(c, current, next) ==
  /\ next = Idle(c) \/ next \in Tasks
  /\ next # current /\ next \in Tasks => status[next] = "Ready"
  /\ next = current /\ next \in Tasks => status[next] = "Running"
  /\ next \in Tasks => \/ next = current
                       \/ \E p \in Queues : In(queue, c, p, next)
  /\ status' \in [AllTasks -> Status]
  /\ status'[next] = "Running"
  /\ current # next =>
       status'[current] = IF status[current] = "Running" THEN "Ready" ELSE status[current]
  /\ \A u \in AllTasks : u # next /\ u # current => status'[u] = status[u]
  /\ queue' \in Lists(Queues) /\ Once(queue', Queues)
  /\ \A d \in Cores, p \in Queues, u \in Tasks : In(queue', d, p, u) <=>
       /\ \/ In(queue, d, p, u)
          \/ status[current] = "Running" /\ d = c /\ p = policy[u] /\ u = current
       /\ ~(d = c /\ u = next)
  /\ next = Idle(c) => \A p \in Queues : queue'[c][p] = <<>>
  /\ next \in Tasks /\ policy[next] = "normal" => queue'[c]["realtime"] = <<>>
  /\ slice' \in [AllTasks -> 0 .. TimeSlice] /\ slice'[next] = TimeSlice
  /\ \A u \in AllTasks : slice'[u] \in {slice[u], TimeSlice}
  /\ running' = [running EXCEPT ![c] = next]
  /\ booted' = [booted EXCEPT ![c] = TRUE]
  /\ UNCHANGED <<online, policy, sleeping, wake_tick, blocked, blocked_on, adding, dropped,
                 waking, need_preempt>>

\* Schedule asks the schedulers in order, requeues a preempted task first, and switches.
LEMMA DoScheduleFacts ==
  ASSUME IInv, NEW c \in Cores, DoSchedule(c)
  PROVE  \E next \in Tasks \union {Idle(c)} : Switched(c, running[c], next)
  <1> DEFINE current == running[c]
             requeued == Preempted(c) /\ current # Idle(c)
             st == IF Preempted(c) THEN [status EXCEPT ![current] = "Ready"] ELSE status
             q == IF requeued THEN Enqueue(queue[c], current) ELSE queue[c]
             sl == IF requeued THEN SliceOnEnqueue(slice, current) ELSE slice
             next == PickNext(c, q, st)
             q1 == [queue EXCEPT ![c] = q]
  <1>1. /\ status' = [st EXCEPT ![next] = "Running"]
        /\ queue' = [queue EXCEPT ![c] = QueuesAfterPick(q, st)]
        /\ slice' = SliceOnSchedule(sl, next)
        /\ running' = [running EXCEPT ![c] = next]
        /\ booted' = [booted EXCEPT ![c] = TRUE]
        /\ UNCHANGED <<online, policy, sleeping, wake_tick, blocked, blocked_on, adding,
                       dropped, waking, need_preempt>>
    BY DEF DoSchedule
  <1>2. /\ current \in Tasks \union {Idle(c)} /\ current \in AllTasks
        /\ Idle(c) \notin Tasks /\ Tasks \subseteq AllTasks /\ Idle(c) \in AllTasks
        /\ status \in [AllTasks -> Status] /\ queue \in Lists(Queues)
        /\ slice \in [AllTasks -> 0 .. TimeSlice] /\ TimeSlice \in Nat \ {0}
        /\ \A u \in Tasks : policy[u] \in Queues
        /\ Once(queue, Queues)
    BY IdleFacts, ConstantsAssumption DEF IInv, IdleInv, TypeOK, Lists, QueueInv, Queues
  <1>3. \A d \in Cores, p \in Queues, u \in Tasks :
          In(queue, d, p, u) => status[u] = "Ready" /\ policy[u] = p
    BY DEF IInv, QueueInv
  <1>4. /\ requeued <=> status[current] = "Running" /\ current \in Tasks
        /\ st \in [AllTasks -> Status]
        /\ st[current] = IF status[current] = "Running" THEN "Ready" ELSE status[current]
        /\ \A u \in AllTasks : u # current => st[u] = status[u]
    BY <1>2 DEF Preempted, Status
  <1>5. /\ q1 \in Lists(Queues) /\ Once(q1, Queues)
        /\ \A d \in Cores, p \in Queues, u \in Tasks : In(q1, d, p, u) <=>
             \/ In(queue, d, p, u)
             \/ status[current] = "Running" /\ d = c /\ p = policy[u] /\ u = current
    <2>1. CASE requeued
      <3>1. current \in Tasks /\ \A d \in Cores : ~In(queue, d, policy[current], current)
        BY <1>2, <1>3, <1>4, <2>1
      <3>2. q1 = [queue EXCEPT ![c] = Enqueue(@, current)]
        BY <2>1
      <3>3. Appended(queue, q1, Queues, c, policy[current], current)
        BY <1>2, <3>1, <3>2, EnqueueFacts DEF IInv
      <3> HIDE DEF current, requeued, st, q, q1
      <3> QED
        BY <1>4, <2>1, <3>3 DEF Appended
    <2>2. CASE ~requeued
      <3>1. q1 = queue
        BY <1>2, <2>2 DEF Lists
      <3> QED
        BY <1>2, <1>4, <2>2, <3>1
    <2> QED
      BY <2>1, <2>2
  <1>6. q \in [Queues -> Seq(Tasks)] /\ q1[c] = q
    BY <1>2, <1>5 DEF Lists
  <1>7. \A p \in Queues : \A i \in DOMAIN q[p] : st[q[p][i]] = "Ready"
    <2> SUFFICES ASSUME NEW p \in Queues, NEW i \in DOMAIN q[p] PROVE st[q[p][i]] = "Ready"
      OBVIOUS
    <2>1. q[p] \in Seq(Tasks)
      BY <1>6
    <2>2. q[p][i] \in Tasks
      BY SMTT(120), <2>1
    <2>3. In(q1, c, p, q[p][i])
      BY <1>6 DEF In
    <2> HIDE DEF q, st, q1
    <2> QED
      BY SMTT(120), <1>2, <1>3, <1>4, <1>5, <2>2, <2>3
  <1> HIDE DEF current, requeued, st, q, sl, next, q1
  <1>8. ASSUME next \in AllTasks
        PROVE  /\ slice' \in [AllTasks -> 0 .. TimeSlice] /\ slice'[next] = TimeSlice
               /\ \A u \in AllTasks : slice'[u] \in {slice[u], TimeSlice}
    <2>1. TimeSlice \in 0 .. TimeSlice
      BY SMTT(120), <1>2
    <2>2. /\ sl \in [AllTasks -> 0 .. TimeSlice]
          /\ \A u \in AllTasks : sl[u] \in {slice[u], TimeSlice}
      BY <1>2, <2>1 DEF SliceOnEnqueue, sl
    <2> QED
      BY <1>1, <1>8, <2>1, <2>2 DEF SliceOnSchedule
  <1>9. CASE \E p \in Queues :
               /\ q[p] # <<>> /\ (p = "normal" => q["realtime"] = <<>>)
               /\ next = Head(q[p])
               /\ QueuesAfterPick(q, st) = [q EXCEPT ![p] = Tail(@)]
    <2>1. PICK p \in Queues : /\ q[p] # <<>> /\ (p = "normal" => q["realtime"] = <<>>)
                              /\ next = Head(q[p])
                              /\ QueuesAfterPick(q, st) = [q EXCEPT ![p] = Tail(@)]
      BY <1>9
    <2>2. queue' = [q1 EXCEPT ![c][p] = Tail(@)]
      BY <1>1, <1>2, <1>6, <2>1 DEF Lists, q1
    <2>3. Removed(q1, queue', Queues, c, p, next)
      BY <1>5, <1>6, <2>1, <2>2, TailFacts
    <2>4. next \in Tasks /\ policy[next] = p /\ st[next] = "Ready"
      BY SMTT(120), <1>2, <1>3, <1>4, <1>5, <2>3 DEF Removed
    <2>5. next = current \/ In(queue, c, p, next)
      BY <1>5, <2>3, <2>4 DEF Removed
    <2>6. \A d \in Cores, m \in Queues, u \in Tasks : In(queue', d, m, u) <=>
            /\ \/ In(queue, d, m, u)
               \/ status[current] = "Running" /\ d = c /\ m = policy[u] /\ u = current
            /\ ~(d = c /\ u = next)
      BY SMTT(120), <1>3, <1>5, <2>3, <2>4 DEF Removed
    <2>7. p = "normal" => queue'[c]["realtime"] = <<>>
      BY <1>6, <2>1, <2>3 DEF Removed, Queues
    <2>8. next # current => status[next] = "Ready"
      BY <1>2, <1>4, <2>4
    <2>9. next = current => status[next] = "Running"
      BY SMTT(120), <1>2, <1>3, <1>4, <1>5, <2>3, <2>4 DEF Removed, IInv, RunInv, current
    <2>10. /\ status' \in [AllTasks -> Status] /\ status'[next] = "Running"
           /\ \A u \in AllTasks : u # next => status'[u] = st[u]
      BY <1>1, <1>2, <1>4, <2>4 DEF Status
    <2>11. Switched(c, current, next)
      BY <1>1, <1>2, <1>4, <1>8, <2>3, <2>4, <2>5, <2>6, <2>7, <2>8, <2>9, <2>10
      DEF Switched, Removed
    <2> QED
      BY <2>4, <2>11 DEF current
  <1>10. CASE /\ \A p \in Queues : q[p] = <<>>
              /\ next = Idle(c)
              /\ QueuesAfterPick(q, st) = q
    <2>1. queue' = q1
      BY <1>1, <1>10 DEF q1
    <2>2. \A p \in Queues, u \in Tasks : ~In(q1, c, p, u)
      BY SMTT(120), <1>6, <1>10 DEF In
    <2>3. \A p \in Queues : queue'[c][p] = <<>>
      BY <1>6, <1>10, <2>1
    <2>4. /\ status' \in [AllTasks -> Status] /\ status'[next] = "Running"
          /\ \A u \in AllTasks : u # next => status'[u] = st[u]
      BY <1>1, <1>2, <1>4, <1>10 DEF Status
    <2>5. \A d \in Cores, p \in Queues, u \in Tasks : In(queue', d, p, u) <=>
            /\ \/ In(queue, d, p, u)
               \/ status[current] = "Running" /\ d = c /\ p = policy[u] /\ u = current
            /\ ~(d = c /\ u = next)
      BY <1>5, <2>1, <2>2
    <2>6. Switched(c, current, next)
      BY <1>1, <1>2, <1>4, <1>5, <1>8, <1>10, <2>1, <2>3, <2>4, <2>5 DEF Switched
    <2> QED
      BY <1>10, <2>6 DEF current
  <1> QED
    BY SMTT(120), <1>6, <1>7, <1>9, <1>10, PickFacts DEF next

-----------------------------------------------------------------------------
(* The steps *)

\* A round-robin queue renews the slice of the task it takes, a FIFO queue leaves it.
LEMMA SliceFacts ==
  ASSUME TypeOK, NEW t \in Tasks, NEW s, s = SliceOnEnqueue(slice, t)
  PROVE  /\ s \in [AllTasks -> 0 .. TimeSlice]
         /\ \A u \in AllTasks : s[u] \in {slice[u], TimeSlice}
  <1>1. TimeSlice \in 0 .. TimeSlice /\ t \in AllTasks
    BY SMTT(120), ConstantsAssumption, IdleFacts
  <1> QED
    BY <1>1 DEF TypeOK, SliceOnEnqueue

\* Every task has a ready queue.
LEMMA PolicyFacts == TypeOK => \A u \in Tasks : policy[u] \in Queues
  BY ConstantsAssumption DEF TypeOK, Queues

\* A core builds its schedulers.
LEMMA InitCurrentCoreStep ==
  ASSUME IInv, NEW c \in Cores, InitCurrentCore(c)
  PROVE  IInv'
  <1> USE DEF IInv, InitCurrentCore
  <1>1. TypeOK'
    BY DEF TypeOK
  <1>2. QueueInv' /\ BlockInv' /\ NoOverdueSleeper' /\ AddInv'
    BY SMTT(120) DEF QueueInv, BlockInv, NoOverdueSleeper, AddInv, BeingAdded
  <1>3. IdleInv' /\ RunInv' /\ CallInv' /\ WaitInv' /\ SliceInv'
    BY SMTT(120) DEF IdleInv, RunInv, CallInv, WaitInv, SliceInv
  <1> QED
    BY <1>1, <1>2, <1>3

\* AddTask marks a new task kReady.
LEMMA AddTaskStep ==
  ASSUME IInv, NEW c \in Cores, NEW t \in AllTasks, NEW new \in Tasks, NEW target \in Cores,
         AddTask(c, t, new, target)
  PROVE  IInv'
  <1> USE DEF IInv
  <1>1. /\ running[c] = t /\ call[t] = "none" /\ mode[c] = "run" /\ status[new] = "UnInit"
        /\ status' = [status EXCEPT ![new] = "Ready"]
        /\ adding' = [adding EXCEPT ![t] = <<new, target>>]
        /\ call' = [call EXCEPT ![t] = "enqueue"]
    BY DEF AddTask, Caller, Calls0, Runs
  <1>2. UNCHANGED <<online, booted, running, queue, slice, sleeping, wake_tick, blocked,
                    blocked_on, policy, dropped, mode, waking, need_preempt>>
    BY DEF AddTask, coreVars, tickVars
  <1>3. /\ \A u \in AllTasks : status'[u] = IF u = new THEN "Ready" ELSE status[u]
        /\ \A u \in AllTasks : call'[u] = IF u = t THEN "enqueue" ELSE call[u]
        /\ \A u \in AllTasks : adding'[u][1] = IF u = t THEN new ELSE adding[u][1]
        /\ running[c] = t /\ call[t] = "none" /\ mode[c] = "run" /\ status[new] = "UnInit"
    BY <1>1, IdleFacts DEF TypeOK
  <1>4. /\ adding[t][1] = NoTask /\ new \notin dropped
        /\ \A u \in AllTasks : adding[u][1] # new
        /\ \A u \in AllTasks : adding[u][1] \in Tasks \union {NoTask}
    <2>1. \A u \in AllTasks : adding[u][1] \in Tasks \union {NoTask}
      BY DEF TypeOK
    <2>2. dropped \subseteq Tasks
      BY DEF TypeOK
    <2> QED
      BY SMTT(120), <1>3, <2>1, <2>2, IdleFacts DEF AddInv
  <1>5. TypeOK'
    <2>1. adding' \in [AllTasks -> (Tasks \union {NoTask}) \X Cores]
      BY <1>1 DEF TypeOK
    <2>2. status' \in [AllTasks -> Status] /\ call' \in [AllTasks -> Calls]
      BY <1>1 DEF TypeOK, Status, Calls
    <2> QED
      BY <1>2, <2>1, <2>2 DEF TypeOK
  <1>6. QueueInv'
    <2>1. \A x \in Tasks : BeingAdded(x)' <=> BeingAdded(x) \/ x = new
      BY SMTT(120), <1>3, <1>4, IdleFacts DEF BeingAdded
    <2>2. \A d \in Cores, p \in Queues : ~In(queue, d, p, new)
      BY <1>3 DEF QueueInv
    <2> QED
      BY SMTT(120), <1>2, <1>3, <2>1, <2>2, IdleFacts DEF QueueInv
  <1>7. BlockInv' /\ NoOverdueSleeper'
    BY SMTT(120), <1>2, <1>3, IdleFacts DEF BlockInv, NoOverdueSleeper
  <1>8. AddInv'
    <2>1. \A x \in Tasks : status'[x] = IF x = new THEN "Ready" ELSE status[x]
      BY <1>3, IdleFacts
    <2>2. \A u \in AllTasks : adding'[u][1] # NoTask =>
            status'[adding'[u][1]] = "Ready" /\ adding'[u][1] \notin dropped'
      BY SMTT(120), <1>2, <1>3, <1>4, <2>1 DEF AddInv
    <2>3. \A u \in AllTasks : call'[u] = "enqueue" <=> adding'[u][1] # NoTask
      BY SMTT(120), <1>3, <1>4, IdleFacts DEF AddInv
    <2>4. \A u, w \in AllTasks : adding'[u][1] # NoTask /\ adding'[u][1] = adding'[w][1] => u = w
      BY SMTT(120), <1>3, <1>4 DEF AddInv
    <2>5. \A x \in dropped' : status'[x] = "Ready"
      BY <1>2, <2>1 DEF AddInv, TypeOK
    <2> QED
      BY <2>2, <2>3, <2>4, <2>5 DEF AddInv
  <1>9. IdleInv'
    <2>1. \A d \in Cores : /\ status'[Idle(d)] = status[Idle(d)]
                           /\ call'[Idle(d)] \in {call[Idle(d)], "enqueue"}
      BY <1>3, IdleFacts
    <2> QED
      BY <1>2, <2>1 DEF IdleInv
  <1>10. RunInv' /\ WaitInv'
    BY SMTT(120), <1>2, <1>3, IdleFacts DEF RunInv, WaitInv
  <1>11. CallInv'
    <2>1. \A d \in Cores : mode[d] = "wakeup" => running[d] # t /\ running[d] \in AllTasks
      BY <1>3 DEF RunInv, TypeOK
    <2> QED
      BY SMTT(120), <1>2, <1>3, <2>1, IdleFacts DEF CallInv
  <1>12. SliceInv'
    BY <1>2, <1>3 DEF SliceInv, TypeOK
  <1> QED
    BY <1>5, <1>6, <1>7, <1>8, <1>9, <1>10, <1>11, <1>12

\* AddTask places its task in the queue of the target core, or in none.
LEMMA AddTaskEnqueueStep ==
  ASSUME IInv, NEW c \in Cores, NEW t \in AllTasks, AddTaskEnqueue(c, t)
  PROVE  IInv'
  <1> USE DEF IInv
  <1> DEFINE new == adding[t][1]
             target == adding[t][2]
  <1>1. /\ running[c] = t /\ call[t] = "enqueue" /\ mode[c] = "run"
        /\ adding' = [adding EXCEPT ![t] = <<NoTask, BootCore>>]
        /\ call' = [call EXCEPT ![t] = "none"]
        /\ \/ /\ queue' = [queue EXCEPT ![target] = Enqueue(@, new)]
              /\ slice' = SliceOnEnqueue(slice, new)
              /\ dropped' = dropped
           \/ dropped' = dropped \union {new} /\ queue' = queue /\ slice' = slice
    BY DEF AddTaskEnqueue, Runs
  <1>2. UNCHANGED <<online, booted, status, running, sleeping, wake_tick, blocked,
                    blocked_on, policy, mode, waking, need_preempt>>
    BY DEF AddTaskEnqueue, coreVars, tickVars
  <1>3. new \in Tasks \union {NoTask} /\ target \in Cores
    <2>1. adding[t] \in (Tasks \union {NoTask}) \X Cores
      BY DEF TypeOK
    <2> QED
      BY <2>1
  <1>4. new \in Tasks /\ status[new] = "Ready" /\ new \notin dropped /\ BeingAdded(new)
    BY <1>1, <1>3 DEF AddInv, BeingAdded
  <1>5. /\ \A u \in AllTasks : call'[u] = IF u = t THEN "none" ELSE call[u]
        /\ \A u \in AllTasks : adding'[u][1] = IF u = t THEN NoTask ELSE adding[u][1]
        /\ running[c] = t /\ call[t] = "enqueue" /\ mode[c] = "run" /\ adding[t][1] = new
    BY <1>1 DEF TypeOK
  <1>6. /\ TypeOK /\ queue \in Lists(Queues) /\ Once(queue, Queues)
        /\ slice \in [AllTasks -> 0 .. TimeSlice]
    BY DEF TypeOK, QueueInv, Lists
  <1> HIDE DEF new, target
  <1>7. /\ slice' \in [AllTasks -> 0 .. TimeSlice]
        /\ \A u \in AllTasks : slice'[u] \in {slice[u], TimeSlice}
    <2>1. CASE slice' = slice
      BY <1>6, <2>1
    <2>2. CASE slice' = SliceOnEnqueue(slice, new)
      BY <1>4, <1>6, <2>2, SliceFacts
    <2> QED
      BY <1>1, <2>1, <2>2
  <1>8. /\ queue' \in Lists(Queues) /\ Once(queue', Queues)
        /\ \A d \in Cores, p \in Queues, u \in Tasks :
             /\ In(queue, d, p, u) => In(queue', d, p, u)
             /\ In(queue', d, p, u) =>
                  In(queue, d, p, u) \/ (u = new /\ p = policy[u] /\ u \notin dropped')
        /\ new \in dropped' \/ In(queue', target, policy[new], new)
        /\ dropped' \in {dropped, dropped \union {new}}
    <2>1. CASE dropped' = dropped \union {new} /\ queue' = queue
      <3>1. In(queue', target, policy[new], new) <=> In(queue, target, policy[new], new)
        BY <2>1
      <3>2. \A d \in Cores, p \in Queues, u \in Tasks : In(queue', d, p, u) <=> In(queue, d, p, u)
        BY <2>1
      <3>3. queue' \in Lists(Queues) /\ Once(queue', Queues)
        BY <1>6, <2>1
      <3>4. new \in dropped' /\ dropped' \in {dropped, dropped \union {new}}
        BY <2>1
      <3> QED
        BY <3>2, <3>3, <3>4
    <2>2. CASE queue' = [queue EXCEPT ![target] = Enqueue(@, new)] /\ dropped' = dropped
      <3>1. policy[new] \in Queues /\ \A d \in Cores : ~In(queue, d, policy[new], new)
        BY <1>4, PolicyFacts DEF QueueInv
      <3>2. Appended(queue, queue', Queues, target, policy[new], new)
        BY <1>3, <1>4, <1>6, <2>2, <3>1, EnqueueFacts
      <3> QED
        <4>1. queue' \in Lists(Queues) /\ Once(queue', Queues)
          BY <3>2 DEF Appended
        <4>2. \A d \in Cores, p \in Queues, u \in Tasks :
                In(queue', d, p, u) <=>
                  In(queue, d, p, u) \/ (d = target /\ p = policy[new] /\ u = new)
          BY <3>2 DEF Appended
        <4> QED
          BY <1>3, <1>4, <2>2, <3>1, <4>1, <4>2
    <2> QED
      BY <1>1, <2>1, <2>2
  <1>9. TypeOK'
    <2>1. adding' \in [AllTasks -> (Tasks \union {NoTask}) \X Cores]
      BY <1>1, ConstantsAssumption DEF TypeOK
    <2>2. call' \in [AllTasks -> Calls] /\ dropped' \subseteq Tasks
      BY <1>1, <1>4, <1>8 DEF TypeOK, Calls
    <2> QED
      BY <1>2, <1>7, <1>8, <2>1, <2>2 DEF TypeOK, Lists
  <1>10. QueueInv'
    <2>1. \A x \in Tasks : BeingAdded(x)' <=> BeingAdded(x) /\ x # new
      BY SMTT(120), <1>5, IdleFacts DEF BeingAdded, AddInv
    <2>2. \A d \in Cores, p \in Queues, x \in Tasks : In(queue', d, p, x) =>
            status[x] = "Ready" /\ policy[x] = p /\ ~BeingAdded(x)' /\ x \notin dropped'
      BY SMTT(120), <1>4, <1>8, <2>1 DEF QueueInv
    <2>3. ASSUME NEW x \in Tasks, status[x] = "Ready", ~BeingAdded(x)', x \notin dropped'
          PROVE  \E d \in Cores : In(queue', d, policy[x], x)
      <3>1. CASE x = new
        BY <1>3, <1>8, <2>3, <3>1
      <3>2. CASE x # new
        BY <1>8, <2>1, <2>3, <3>2, PolicyFacts DEF QueueInv
      <3> QED
        BY <3>1, <3>2
    <2> QED
      BY <1>2, <1>8, <2>2, <2>3 DEF QueueInv
  <1>11. BlockInv' /\ NoOverdueSleeper'
    BY SMTT(120), <1>2 DEF BlockInv, NoOverdueSleeper
  <1>12. AddInv'
    <2>1. \A u \in AllTasks : adding'[u][1] # NoTask =>
            status'[adding'[u][1]] = "Ready" /\ adding'[u][1] \notin dropped'
      BY SMTT(120), <1>2, <1>5, <1>8 DEF AddInv
    <2>2. \A u \in AllTasks : call'[u] = "enqueue" <=> adding'[u][1] # NoTask
      BY SMTT(120), <1>5 DEF AddInv
    <2>3. \A u, w \in AllTasks : adding'[u][1] # NoTask /\ adding'[u][1] = adding'[w][1] => u = w
      BY SMTT(120), <1>5 DEF AddInv
    <2>4. \A x \in dropped' : status'[x] = "Ready"
      BY <1>2, <1>4, <1>8 DEF AddInv
    <2> QED
      BY <2>1, <2>2, <2>3, <2>4 DEF AddInv
  <1>13. IdleInv'
    <2>1. \A d \in Cores : call'[Idle(d)] \in {call[Idle(d)], "none"}
      BY <1>5, IdleFacts
    <2> QED
      BY <1>2, <2>1 DEF IdleInv
  <1>14. RunInv' /\ WaitInv'
    BY SMTT(120), <1>2, <1>5, IdleFacts DEF RunInv, WaitInv
  <1>15. CallInv'
    <2>1. \A d \in Cores : mode[d] = "wakeup" => running[d] # t /\ running[d] \in AllTasks
      BY <1>5 DEF RunInv, TypeOK
    <2> QED
      BY SMTT(120), <1>2, <1>5, <2>1, IdleFacts DEF CallInv
  <1>16. SliceInv'
    <2>1. TimeSlice > 0 /\ \A d \in Cores : running[d] \in AllTasks
      BY SMTT(120), ConstantsAssumption DEF TypeOK
    <2> QED
      BY <1>2, <1>7, <2>1 DEF SliceInv
  <1> QED
    BY <1>9, <1>10, <1>11, <1>12, <1>13, <1>14, <1>15, <1>16

-----------------------------------------------------------------------------
\* A task that calls Sleep or Block is kRunning, on its core only, and in no list.
LEMMA CallerFacts ==
  ASSUME IInv, NEW c \in Cores, NEW t \in Tasks, Caller(c, t)
  PROVE  /\ running[c] = t /\ mode[c] = "run" /\ call[t] = "none" /\ status[t] = "Running"
         /\ \A d \in Cores, p \in Queues : ~In(queue, d, p, t)
         /\ \A d \in Cores, r \in Resources : ~In(blocked, d, r, t)
         /\ \A d \in Cores : t \notin sleeping[d]
         /\ \A d \in Cores : running[d] = t => d = c
  <1> USE DEF IInv
  <1>1. running[c] = t /\ mode[c] = "run" /\ call[t] = "none"
    BY DEF Caller, Calls0, Runs
  <1>2. status[t] = "Running" /\ \A d \in Cores : running[d] = t => d = c
    BY <1>1 DEF RunInv
  <1> QED
    BY <1>1, <1>2 DEF QueueInv, BlockInv, NoOverdueSleeper

\* Sleep up to its Schedule.
LEMMA SleepStep ==
  ASSUME IInv, NEW c \in Cores, NEW t \in AllTasks, NEW ms \in Durations, Sleep(c, t, ms)
  PROVE  IInv'
  <1> USE DEF IInv
  <1>1. t \in Tasks /\ Caller(c, t)
    BY DEF Sleep
  <1>2. /\ running[c] = t /\ mode[c] = "run" /\ call[t] = "none" /\ status[t] = "Running"
        /\ \A d \in Cores, p \in Queues : ~In(queue, d, p, t)
        /\ \A d \in Cores, r \in Resources : ~In(blocked, d, r, t)
        /\ \A d \in Cores : t \notin sleeping[d]
        /\ \A d \in Cores : running[d] = t => d = c
    BY <1>1, CallerFacts
  <1>3. /\ wake_tick' = [wake_tick EXCEPT ![t] = SleepTicks(ms)]
        /\ queue' = [queue EXCEPT ![c] = Dequeue(@, t)]
        /\ status' = [status EXCEPT ![t] = "Sleeping"]
        /\ sleeping' = [sleeping EXCEPT ![c] = @ \union {t}]
        /\ call' = [call EXCEPT ![t] = "sched_masked"]
    BY DEF Sleep
  <1>4. SleepTicks(ms) \in Nat /\ SleepTicks(ms) > 0
    <2>1. ms * TickHz + 1000 - 1 \in Int /\ WordSize \in Nat \ {0}
      BY SMTT(120), ConstantsAssumption
    <2>2. (ms * TickHz + 1000 - 1) % WordSize \in Nat
      BY SMTT(120), <2>1
    <2>3. ((ms * TickHz + 1000 - 1) % WordSize) \div 1000 \in Nat
      BY SMTT(120), <2>2
    <2> QED
      BY SMTT(120), <2>3 DEF SleepTicks
  <1>5. /\ \A u \in AllTasks : status'[u] = IF u = t THEN "Sleeping" ELSE status[u]
        /\ \A u \in AllTasks : call'[u] = IF u = t THEN "sched_masked" ELSE call[u]
        /\ \A u \in Tasks : wake_tick'[u] = IF u = t THEN SleepTicks(ms) ELSE wake_tick[u]
        /\ \A d \in Cores, u \in Tasks :
             u \in sleeping'[d] <=> u \in sleeping[d] \/ (d = c /\ u = t)
    BY <1>1, <1>3, IdleFacts DEF TypeOK
  <1>6. /\ queue' = queue
        /\ UNCHANGED <<online, booted, running, slice, blocked, blocked_on, adding, dropped,
                       policy, mode, waking, need_preempt>>
    <2>1. policy[t] \in Queues /\ queue \in [Cores -> [Queues -> Seq(Tasks)]]
      BY <1>1, PolicyFacts DEF TypeOK
    <2>2. Dequeue(queue[c], t) = queue[c]
      BY <1>2, <2>1 DEF Dequeue, In
    <2> QED
      BY <1>3, <2>1, <2>2 DEF Sleep, coreVars, addVars, tickVars
  <1>7. TypeOK'
    <2>1. status' \in [AllTasks -> Status] /\ call' \in [AllTasks -> Calls]
      BY <1>3 DEF TypeOK, Status, Calls
    <2>2. wake_tick' \in [Tasks -> Int] /\ sleeping' \in [Cores -> SUBSET Tasks]
      BY SMTT(120), <1>1, <1>3, <1>4 DEF TypeOK
    <2> QED
      BY <1>6, <2>1, <2>2 DEF TypeOK
  <1>8. QueueInv'
    <2>1. \A x \in Tasks : BeingAdded(x)' <=> BeingAdded(x)
      BY <1>6 DEF BeingAdded
    <2>2. \A x \in Tasks : /\ status'[x] = "Ready" => status[x] = "Ready"
                           /\ x # t => status'[x] = status[x]
      BY ONLY <1>5, IdleFacts, SMTT(120)
    <2>3. QueueInv /\ queue' = queue /\ policy' = policy /\ dropped' = dropped
      BY <1>6
    <2> QED
      <3>1. ASSUME NEW d \in Cores, NEW p \in Queues, NEW x \in Tasks, In(queue, d, p, x)
            PROVE  status'[x] = "Ready" /\ policy[x] = p /\ ~BeingAdded(x)' /\ x \notin dropped
        <4>1. status[x] = "Ready" /\ policy[x] = p /\ ~BeingAdded(x) /\ x \notin dropped
          BY <3>1 DEF QueueInv
        <4> QED
          BY <1>2, <2>1, <2>2, <3>1, <4>1
      <3>2. ASSUME NEW x \in Tasks, status'[x] = "Ready", ~BeingAdded(x)', x \notin dropped
            PROVE  \E d \in Cores : In(queue, d, policy[x], x)
        BY <2>1, <2>2, <3>2 DEF QueueInv
      <3> QED
        BY <2>3, <3>1, <3>2 DEF QueueInv
  <1>9. BlockInv'
    BY SMTT(120), <1>2, <1>5, <1>6, IdleFacts DEF BlockInv
  <1>10. NoOverdueSleeper'
    <2>1. \A d \in Cores : sleeping'[d] \subseteq Tasks
      BY <1>7 DEF TypeOK
    <2>2. \A x \in Tasks : status'[x] = "Sleeping" <=> \E d \in Cores : x \in sleeping'[d]
      BY SMTT(120), <1>2, <1>5, IdleFacts DEF NoOverdueSleeper
    <2>3. \A d, e \in Cores : d # e => sleeping'[d] \intersect sleeping'[e] = {}
      BY SMTT(120), <1>2, <1>5, <2>1 DEF NoOverdueSleeper
    <2>4. \A d \in Cores : mode[d] # "tick" => \A x \in sleeping'[d] : wake_tick'[x] > 0
      BY <1>4, <1>5, <2>1 DEF NoOverdueSleeper
    <2> QED
      BY <1>6, <2>2, <2>3, <2>4 DEF NoOverdueSleeper
  <1>11. AddInv'
    <2>1. \A u \in AllTasks : adding[u][1] \in Tasks \union {NoTask}
      BY DEF TypeOK
    <2>2. dropped \subseteq Tasks
      BY DEF TypeOK
    <2>3. AddInv /\ adding' = adding /\ dropped' = dropped
      BY <1>6
    <2>4. \A u \in AllTasks : (call'[u] = "enqueue") <=> (call[u] = "enqueue")
      BY ONLY <1>2, <1>5, SMTT(120)
    <2>5. \A x \in Tasks : status[x] = "Ready" => status'[x] = "Ready"
      <3>1. ASSUME NEW x \in Tasks, status[x] = "Ready" PROVE status'[x] = "Ready"
        <4>1. x # t /\ x \in AllTasks
          BY <1>2, <3>1, IdleFacts
        <4> QED
          BY <1>5, <3>1, <4>1
      <3> QED
        BY <3>1
    <2> QED
      BY ONLY <2>1, <2>2, <2>3, <2>4, <2>5, ZenonT(60) DEF AddInv
  <1>12. IdleInv'
    <2>1. \A d \in Cores : status'[Idle(d)] = status[Idle(d)] /\ call'[Idle(d)] = call[Idle(d)]
      BY <1>1, <1>5, IdleFacts
    <2> QED
      BY <1>6, <2>1 DEF IdleInv
  <1>13. RunInv'
    <2>1. running' = running /\ \A d, e \in Cores : running[d] = running[e] => d = e
      BY <1>6 DEF RunInv
    <2>2. ASSUME NEW x \in Tasks, status'[x] = "Running"
          PROVE  \E d \in Cores : running[d] = x
      <3>1. status[x] = "Running"
        BY ONLY <1>5, <2>2, IdleFacts, SMTT(120)
      <3> QED
        BY <3>1 DEF RunInv
    <2>3. ASSUME NEW d \in Cores, running[d] \in Tasks
          PROVE  /\ status'[running[d]] \in {"Running", "Sleeping", "Blocked"}
                 /\ call'[running[d]] \in {"none", "enqueue"} => status'[running[d]] = "Running"
      <3>1. /\ status[running[d]] \in {"Running", "Sleeping", "Blocked"}
            /\ call[running[d]] \in {"none", "enqueue"} => status[running[d]] = "Running"
        BY <2>3 DEF RunInv
      <3> QED
        BY ONLY <1>5, <2>3, <3>1, IdleFacts, SMTT(120)
    <2> QED
      BY <2>1, <2>2, <2>3 DEF RunInv
  <1>14. CallInv'
    <2>1. \A d \in Cores : mode[d] = "wakeup" => running[d] # t /\ running[d] \in AllTasks
      BY <1>2 DEF TypeOK
    <2> QED
      BY SMTT(120), <1>2, <1>5, <1>6, <2>1, IdleFacts DEF CallInv
  <1>15. WaitInv'
    <2>1. \A x \in Tasks : x \in AllTasks
      BY IdleFacts
    <2> QED
      BY SMTT(120), <1>2, <1>5, <1>6, <2>1 DEF WaitInv
  <1>16. SliceInv'
    BY <1>5, <1>6 DEF SliceInv, TypeOK
  <1> QED
    BY <1>7, <1>8, <1>9, <1>10, <1>11, <1>12, <1>13, <1>14, <1>15, <1>16

=============================================================================
