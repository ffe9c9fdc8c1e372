SPECIFICATION FairSpec
CONSTANTS
  t1 = t1
  t2 = t2
  Threads <- MCThreads
  NoThread = NoThread
INVARIANTS NoUseAfterFree DetachedIsQueued FreedOnceAfterExit
PROPERTY JoinReturns
CHECK_DEADLOCK FALSE
