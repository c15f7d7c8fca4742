SPECIFICATION FairSpec
CONSTANTS
  Soldiers = {s1, s2}
  Nobody = nobody
  Rows = 2
  Cols = 2
INVARIANTS
  TypeOK
  FallsCountedOnce
  OneTileEach
  NoDeadlock
PROPERTIES
  DeployEnds
