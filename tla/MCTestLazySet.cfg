SPECIFICATION TestSpec
CONSTANTS
  t1 = t1
  t2 = t2
  Threads <- MCThreads
  NoThread = nobody
  Elements <- MCThreads
  NoElement = nothing
  Key <- MCKey
  TopKey = 2
  MaxNodes = 2
INVARIANTS
  AssertionsHold
CHECK_DEADLOCK FALSE
