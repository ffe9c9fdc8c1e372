SPECIFICATION Spec
CONSTANTS
  t1 = t1
  t2 = t2
  Threads <- MCThreads
SYMMETRY Symmetry
INVARIANT CreatorFinishesFirst
CHECK_DEADLOCK FALSE
