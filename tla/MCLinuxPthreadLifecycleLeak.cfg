SPECIFICATION Spec
CONSTANTS
  t1 = t1
  t2 = t2
  Threads <- MCThreads
  NoThread = NoThread
SYMMETRY Symmetry
INVARIANT EveryDetachedIsQueued
CHECK_DEADLOCK FALSE
