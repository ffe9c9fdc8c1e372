SPECIFICATION ObjectsSpec
CONSTANTS
  t1 = t1
  t2 = t2
  t3 = t3
  Threads <- MCThreads
  NativeThreads <- MCNativeThreads
  InitialValue = 0
  SemValueMax = 2
  MaxPosts = 3
  MaxReads = 1
  MaxRounds = 2
  Counts = {2, 3, 4}
INVARIANTS TypeOK TokensConserved NoTokenUnclaimed
  SleepersNotStranded RoundsAreExact FreedOnceAfterLastUse
PROPERTIES SleepersServed ImplementsRwlockSpec BarrierOpens HandshakesEnd
