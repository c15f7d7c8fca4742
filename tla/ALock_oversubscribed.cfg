SPECIFICATION Spec
CONSTANTS
  Threads = {t1, t2, t3}
  MaxThreads = 2
  Values = {0, 1}
  Default = 0
  MaxUsize = 3
INVARIANTS
  MutualExclusion
