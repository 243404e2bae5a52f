\* x86_64, one core; task code calls Schedule with interrupts enabled.
SPECIFICATION Spec
CONSTANTS
  Cores = {c1}
  Tasks = {t1, t2}
  Arch = "x86_64"
  Callers = {"open"}
  MaxFrames = 4
INVARIANTS
  NoNestedSchedule
