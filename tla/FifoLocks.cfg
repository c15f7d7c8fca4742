SPECIFICATION LocksSpec
CONSTANTS
  Threads = {t1, t2, t3, t4}
  QueueThreads = {t1, t2, t3}
  MaxUsize = 3
  NoNode = null
  MaxThreads = 3
  MaxTail = 5
INVARIANTS
  LocksTypeOK
  MutualExclusion
  TicketsOutstanding
  IdleNodesAsNew
  LinksFollowQueue
  OneToken
  CellsUnshared
PROPERTIES
  LocksImplementFifo
