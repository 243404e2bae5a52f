\* Three tasks on one core share a mutex.
SPECIFICATION MSpec
CONSTANTS
  Cores = {c1}
  BootCore = c1
  Tasks = {t1, t2, t3}
  NoTask = NoTask
  Policies = {"realtime", "normal"}
  Resources = {m}
  NoResource = NoResource
  TimeSlice = 2
  TickHz = 100
  Durations = {10}
  WordSize = 5500
  SpuriousFailure = TRUE
SYMMETRY TaskSymmetry
INVARIANTS
  MutexExclusion
  OwnerKnown
  SliceNotExhausted
