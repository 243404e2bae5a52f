---------------------------- MODULE ThreadGroup -----------------------------
(***************************************************************************)
(* Thread groups (src/src/task/task_control_block.cpp): the doubly linked  *)
(* list that Clone extends and that Exit and the destructor shrink.  Each  *)
(* call is one step: the lists have no lock of their own ("the caller      *)
(* ensures locking", task_control_block.hpp:205).                          *)
(***************************************************************************)
EXTENDS Naturals, FiniteSets

CONSTANTS
  TgTasks,   \* task control blocks
  NoThread   \* nullptr, and pid 0

ASSUME ThreadAssumption == IsFiniteSet(TgTasks) /\ NoThread \notin TgTasks

VARIABLES
  tg_next, tg_prev,  \* thread_group_next, thread_group_prev
  tg_tgid,           \* tgid, the leader's
  tg_state           \* "none", "cloning", "alive", "exited" (still in task_table_), "deleted"

tg_vars == <<tg_next, tg_prev, tg_tgid, tg_state>>

GroupInit ==
  /\ tg_next = [t \in TgTasks |-> NoThread]
  /\ tg_prev = [t \in TgTasks |-> NoThread]
  /\ tg_tgid = [t \in TgTasks |-> NoThread]
  /\ tg_state = [t \in TgTasks |-> "none"]

\* Clone without kCloneThread, and AddTask.
NewProcess(n) ==
  /\ tg_state[n] = "none"
  /\ tg_state' = [tg_state EXCEPT ![n] = "cloning"]
  /\ tg_tgid' = [tg_tgid EXCEPT ![n] = n]
  /\ UNCHANGED <<tg_next, tg_prev>>

JoinThreadGroup(n, leader) ==
  LET next == tg_next[leader]
  IN  /\ tg_next' = [tg_next EXCEPT ![n] = next, ![leader] = n]
      /\ tg_prev' = [t \in TgTasks |-> IF t = n THEN leader ELSE IF t = next THEN n ELSE tg_prev[t]]

\* Clone with kCloneThread by task p.  The leader is p or FindTask(p's tgid), which
\* still finds a leader that has exited; once it is deleted there is no list to join.
CloneThread(p, n) ==
  LET leader == tg_tgid[p]
  IN  /\ tg_state[p] = "alive" /\ tg_state[n] = "none"
      /\ tg_state' = [tg_state EXCEPT ![n] = "cloning"]
      /\ tg_tgid' = [tg_tgid EXCEPT ![n] = leader]
      /\ IF tg_state[leader] = "deleted"
           THEN UNCHANGED <<tg_next, tg_prev>>
           ELSE JoinThreadGroup(n, leader)

\* Mutant: the thread behind t keeps pointing at t.
LeaveHalf(t) ==
  /\ tg_next' = [u \in TgTasks |-> IF u = t THEN NoThread
                                   ELSE IF u = tg_prev[t] THEN tg_next[t] ELSE tg_next[u]]
  /\ tg_prev' = [tg_prev EXCEPT ![t] = NoThread]

LeaveThreadGroup(t) ==
  /\ tg_next' = [u \in TgTasks |-> IF u = t THEN NoThread
                                   ELSE IF u = tg_prev[t] THEN tg_next[t] ELSE tg_next[u]]
  /\ tg_prev' = [u \in TgTasks |-> IF u = t THEN NoThread
                                   ELSE IF u = tg_next[t] THEN tg_prev[t] ELSE tg_prev[u]]

\* The rest of Clone has succeeded.
Started(t) ==
  /\ tg_state[t] = "cloning"
  /\ tg_state' = [tg_state EXCEPT ![t] = "alive"]
  /\ UNCHANGED <<tg_next, tg_prev, tg_tgid>>

Exit(t) ==
  /\ tg_state[t] = "alive"
  /\ tg_state' = [tg_state EXCEPT ![t] = "exited"]
  /\ LeaveThreadGroup(t)
  /\ UNCHANGED tg_tgid

\* ~TaskControlBlock: after Exit, or of the child of a Clone that fails.
Delete(t) ==
  /\ tg_state[t] \in {"cloning", "exited"}
  /\ tg_state' = [tg_state EXCEPT ![t] = "deleted"]
  /\ LeaveThreadGroup(t)
  /\ UNCHANGED tg_tgid

GroupNext ==
  \E t \in TgTasks : \/ NewProcess(t) \/ Started(t) \/ Exit(t) \/ Delete(t)
                     \/ \E n \in TgTasks : CloneThread(t, n)

GroupSpec == GroupInit /\ [][GroupNext]_tg_vars

-----------------------------------------------------------------------------
\* The tasks that a walk from t along a link visits: the least set with the link of t
\* and of each of its own members.
Closed(link, t, S) == \A u \in S \union {t} : link[u] \in S \union {NoThread}
Follow(link, t) == {u \in TgTasks : \A S \in SUBSET TgTasks : Closed(link, t, S) => u \in S}

GetThreadGroupSize(t) ==
  IF tg_tgid[t] = NoThread THEN 1
  ELSE 1 + Cardinality(Follow(tg_prev, t)) + Cardinality(Follow(tg_next, t))

Members(g) == {t \in TgTasks : tg_tgid[t] = g /\ tg_state[t] \in {"cloning", "alive"}}

\* The two links of neighbours agree, the walks of GetThreadGroupSize along them end,
\* neighbours belong to one group, and no deleted control block is reachable.
LinksConsistent ==
  \A t \in TgTasks :
    /\ t \notin Follow(tg_next, t) /\ t \notin Follow(tg_prev, t)
    /\ \A u \in TgTasks :
         /\ tg_next[t] = u <=> tg_prev[u] = t
         /\ tg_next[t] = u => tg_tgid[t] = tg_tgid[u] /\ "deleted" \notin {tg_state[t], tg_state[u]}

\* While the leader lives, every member that asks for the size of its group counts
\* the members that have not left, each once.
GroupSizeExact ==
  \A g \in TgTasks :
    tg_state[g] = "alive" /\ tg_tgid[g] = g =>
      \A t \in Members(g) : GetThreadGroupSize(t) = Cardinality(Members(g))

\* JoinThreadGroup, LeaveThreadGroup and the destructor keep the lists of all groups
\* well formed, whatever order clones, exits and deletions come in, also around a
\* leader that has gone; and GetThreadGroupSize is exact while the leader lives.
GroupsConsistent == LinksConsistent /\ GroupSizeExact
=============================================================================
