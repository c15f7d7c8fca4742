SPECIFICATION FairSpec
CONSTANTS
  Threads = {t1, t2, t3}
  MinDelay = 1
  MaxDelay = 3
INVARIANTS
  TypeOK
  WordNamesHolder
  IInv
PROPERTIES
  ImplementsMutex
