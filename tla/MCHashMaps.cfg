SPECIFICATION BenchSpec
CONSTANTS
  t1 = t1
  t2 = t2
  Threads = {t1, t2}
  NoThread = nobody
  AnyKeys <- MCAnyKeys
  AnyValues <- MCAnyValues
  Garbage = garbage
  Keys <- MCKeys
  Values <- MCValues
  NoValue = nothing
  Hash <- MCHash
  HashSpace = 8
  NumBuckets = 3
  NThreads = 3
  WorkSize = 2
  threadId <- MCThreadId
INVARIANTS
  OneNodePerKey
  WalkNotStale
  WorkersUndisturbed
PROPERTIES
  ImplementsMap
  WorkersEnd
