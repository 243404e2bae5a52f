\* One core, round-robin tasks only.
SPECIFICATION FairSpec
CONSTANTS
  Cores = {c1}
  BootCore = c1
  Tasks = {t1, t2, t3}
  NoTask = NoTask
  Policies = {"normal"}
  Resources = {r1}
  NoResource = NoResource
  TimeSlice = 1
  TickHz = 100
  Durations = {11}
  WordSize = 5500
PROPERTIES
  SleeperWakes
  ReadyRuns
