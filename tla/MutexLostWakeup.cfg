\* Two tasks on one core, a compare-exchange that never fails spuriously.
SPECIFICATION MSpec
CONSTANTS
  Cores = {c1}
  BootCore = c1
  Tasks = {t1, t2}
  NoTask = NoTask
  Policies = {"normal"}
  Resources = {m}
  NoResource = NoResource
  TimeSlice = 1
  TickHz = 100
  Durations = {10}
  WordSize = 5500
  SpuriousFailure = FALSE
SYMMETRY TaskSymmetry
INVARIANTS
  NoLostWakeup
