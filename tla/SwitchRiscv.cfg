\* riscv64, one core.
SPECIFICATION Spec
CONSTANTS
  Cores = {c1}
  Tasks = {t1, t2}
  Arch = "riscv64"
  Callers = {"masked"}
  MaxFrames = 3
INVARIANTS
  ThreadsPreemptible
