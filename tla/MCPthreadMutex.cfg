SPECIFICATION FairSpec
CONSTANTS
  main = main
  t1 = t1
  t2 = t2
  Threads <- MCThreads
  LowWord <- MCLowWord
  HighWord <- MCHighWord
  MaxDepth = 2
INVARIANTS TypeOK MutualExclusion OwnerTestExact CountIsDepth NoLostWakeup
PROPERTIES ImplementsMutexSpec WaitersProgress
