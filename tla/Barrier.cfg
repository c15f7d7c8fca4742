SPECIFICATION FairSpec
CONSTANTS
  Threads = {t1, t2, t3}
  Rounds = 3
  MarchValues = 2
  NoThread = none
INVARIANTS
  TypeOK
  NoLostWakeup
  CountIsArrivals
PROPERTIES
  ImplementsContract
