SPECIFICATION FairSpec
CONSTANTS
  r1 = r1
  r2 = r2
  r3 = r3
  p1 = p1
  p2 = p2
  sync = sync
  none = none
  Requests <- MCTwoRequests
  PoolThreads <- MCOnePoolThread
  SyncThread <- sync
  None <- none
PROPERTIES
  EveryCallReturns
CHECK_DEADLOCK FALSE
