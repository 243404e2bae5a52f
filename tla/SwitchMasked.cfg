\* x86_64, one core; task code calls Schedule with interrupts disabled.
SPECIFICATION Spec
CONSTANTS
  Cores = {c1}
  Tasks = {t1, t2, t3}
  Arch = "x86_64"
  Callers = {"masked"}
  MaxFrames = 4
SYMMETRY TaskSymmetry
INVARIANTS
  OwnContext
  NoNestedSchedule
  ThreadsPreemptible
  TimerAcknowledged
