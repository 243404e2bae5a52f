\* Two cores, the second one starting while the first schedules, three tasks of
\* both policies, one resource.
SPECIFICATION Spec
CONSTANTS
  Cores = {c1, c2}
  BootCore = c1
  Tasks = {t1, t2, t3}
  NoTask = NoTask
  Policies = {"realtime", "normal"}
  Resources = {r1}
  NoResource = NoResource
  TimeSlice = 1
  TickHz = 100
  Durations = {0, 11, 50}
  WordSize = 5500
SYMMETRY TaskSymmetry
INVARIANTS
  
  RunningIsCurrent
  BlockedIsListedOnce
  NoOverdueSleeper
PROPERTIES
  SchedulePicksHighest
