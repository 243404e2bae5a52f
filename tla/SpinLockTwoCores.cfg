\* Two cores, each with task code and an interrupt handler.
SPECIFICATION FairSpec
CONSTANTS
  Cores = {c1, c2}
  NoCore = NoCore
INVARIANTS
  MutualExclusion
  OwnerRecognised
  NoHandlerHang
PROPERTIES
  RecursionIsReal
  ImplementsAbstractLock
  LockAlwaysFreed
