SPECIFICATION Spec
CONSTANTS
  r1 = r1
  r2 = r2
  MayRun <- MCMayRun
  Runs = {r1, r2}
  Locks <- MCLocks
  HpxLocks <- MCHpxLocks
  Sets <- MCSets
  Maps <- MCMaps
  MinTop = 3
  MaxTop = 3
  Durations <- MCDurations
  TicksPerMs = 2
  Unset = "unset"
  Unknown = "unknown"
INVARIANTS
  OneHeader
  BestOfRun
PROPERTIES
  ResultsStay
  EachTestOnce
