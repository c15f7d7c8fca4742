SPECIFICATION BenchSpec
CONSTANTS
  t1 = t1
  t2 = t2
  Threads = {t1, t2}
  NoThread = nobody
  Elements <- MCElements
  NoElement = nothing
  Key <- MCKey
  TopKey = 2
  AnyNodes = 2
  MaxNodes = 4
  NThreads = 3
  WorkSize = 1
  threadId <- MCThreadId
INVARIANTS
  ListWellFormed
  CallbackWindow
  WorkersUndisturbed
PROPERTIES
  ImplementsSet
  WorkersEnd
