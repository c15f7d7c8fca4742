SPECIFICATION TestSpec
CONSTANTS
  Threads = {t1, t2}
  Dummy = d
  NoNode = null
  CountTo = 2
  PlainFlag = TRUE
INVARIANTS
  CounterExact
