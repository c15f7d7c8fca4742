SPECIFICATION TestFairSpec
CONSTANTS
  Threads = {t1, t2, t3}
  Dummy = d
  NoNode = null
  CountTo = 3
  PlainFlag = FALSE
INVARIANTS
  MutualExclusion
  NodesRecycledSafely
  IInv
  CounterExact
PROPERTIES
  ImplementsFifo
