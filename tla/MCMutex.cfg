SPECIFICATION Spec
CONSTANTS
  Threads = {t1, t2, t3}
  Mutexes = {m1, m2, m3}
  MUTEX_LIMIT = 2
  Null = Null
INVARIANTS
  WaitersFound
  SomeoneRuns
PROPERTIES
  UnlocksReachAll
