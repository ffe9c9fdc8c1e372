SPECIFICATION ObjectsSpec
CONSTANTS
  t1 = t1
  t2 = t2
  t3 = t3
  Threads <- MCThreads
  NoThread = NoThread
  MaxSignals = 2
  TableSize = 3
  KeysMax = 2
  Passes = 2
  MaxCreated = 2
  Chunk = 14
  Places = 2
  MaxRegions = 2
  Requests = {2, 5}
  Alignment = 4
  MaxLive = 2
SYMMETRY Symmetry
INVARIANTS WaitersCounted WakesReachWaiters
  RegisteredFindsItself ScanIsExact EverybodyCanAllocate
  ValuesMeetTheirDestructor
  HeapIsWhole CallersHaveTheirOwn
