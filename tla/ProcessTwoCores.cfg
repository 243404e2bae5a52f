\* Two cores, the init task and two tasks created later.  Every core may end
\* in the hanging LockGuard of Exit, so the system may stop.
SPECIFICATION Spec
CONSTANTS
  Cores = {c1, c2}
  Tasks = {i, a, b}
  Roots = {i}
  InitTask = i
  NoTask = NoTask
  AnyChild = AnyChild
SYMMETRY Symmetry
CHECK_DEADLOCK FALSE
INVARIANTS
  WaitTargetStable
  TableIsLive
  QueuedIsLive
  NothingLeaks
  ZombieHasReaper
PROPERTIES
  DeadStaysDead
