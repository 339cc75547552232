SPECIFICATION FairSpec
CONSTANTS
  r1 = r1
  r2 = r2
  r3 = r3
  p1 = p1
  p2 = p2
  sync = sync
  none = none
  Requests <- MCRequests
  PoolThreads <- MCPoolThreads
  SyncThread <- sync
  None <- none
INVARIANTS
  TypeOK
  FrameOutlivesJob
  SyncSerialized
PROPERTIES
  ImplementsDbCall
  EveryJobIsServed
  WaiterIsWoken
CHECK_DEADLOCK FALSE
