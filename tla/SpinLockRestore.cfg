\* Two cores: the flag restored by UnLock.
SPECIFICATION Spec
CONSTANTS
  Cores = {c1, c2}
  NoCore = NoCore
PROPERTIES
  RestoresInterrupts
