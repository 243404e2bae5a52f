\* aarch64, one core.
SPECIFICATION Spec
CONSTANTS
  Cores = {c1}
  Tasks = {t1, t2}
  Arch = "aarch64"
  Callers = {"masked"}
  MaxFrames = 4
INVARIANTS
  TimerAcknowledged
CHECK_DEADLOCK FALSE
