SPECIFICATION FairSpec
CONSTANTS
  Size = 2
  Versions = 2
  Capacity = 1
INVARIANTS NoGapNoSplice LossIsNotTheEnd RetriesBounded
PROPERTY CallsReturn
CHECK_DEADLOCK FALSE
