SPECIFICATION Spec
CONSTANTS
  MapKeys = {1, 2, 3}
  MapValues = {1, 2}
  DefaultBucketCount = 2
  MaxBuckets = 3
  TreeKeys = {1, 2, 3, 4, 5, 6, 7}
  Levels = 3
  Entries = 2
  Pages = 6
  MaxDirs = 2
  VirtualPages = {0, 1, 2}
  Ptes = {1}
  Callers = {1}
  Start = 8
  End = 36
  MaxAlign = 4
  PtrSize = 2
  SizeMax = 8
  Sizes = {0, 1, 5}
  Alignments = {1, 6, 8}
  Threads = {1, 2, 3}
  QueueItems = {x, y}
  QueueCapacity = 2
  MaxPos = 3
  NoItem = NoItem
  CfsTasks = {1, 2, 3}
  Weights = {0, 2048}
  kDefaultWeight = 1024
  kMinGranularity = 10
  MaxVruntime = 2000
  TgTasks = {1, 2, 3, 4}
  NoThread = 0
  GuardUsers = {1, 2, 3}
  Elements = {x, y}
  Raw = Raw
  Moved = Moved
  MaxSize = 4
  MaxNodes = 3
  Wrap = 16
  MaxLength = 4
  Bases = {0, 1, 10, 16, 36}
INVARIANTS
  
  AlignedInside
  RefusalJustified
  UsedOnlyWhenReady
  OneConstructor
  
  NumberExact
PROPERTIES
  ImplementsMap
  ImplementsSet
  
  ImplementsQueue
  SpreadKept
  VectorImplementsSequence
  ListImplementsSequence
CHECK_DEADLOCK FALSE
