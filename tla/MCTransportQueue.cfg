SPECIFICATION TransportSpec
CONSTANTS
  Capacity = 3
  MaxBytes = 4
INVARIANTS SleepersHaveCause NobodyWaitsOnFreedQueue FinishIsHonest JoinedOnceBeforeFree
PROPERTIES ImplementsByteStream CancelReleasesEverybody UploadCallsReturn
CHECK_DEADLOCK FALSE
